---- MODULE Spec2Model ----
(***************************************************************************)
(* Policy gateway of mcp-proxy: the persisted allow/block configuration    *)
(* (src/config/manager.ts, src/config/defaults.ts) and the two gated       *)
(* tools that consult it (tools/proxy-fetch.ts, tools/network-exec.ts).    *)
(*                                                                         *)
(* A JavaScript string is a sequence of one-character strings, so that     *)
(* lower-casing, trimming, basename, URL host extraction, substring search *)
(* and wildcard matching are computed the way the code computes them.      *)
(***************************************************************************)
EXTENDS Integers, Sequences, FiniteSets, TLC

(***************************************************************************)
(* Evaluation order.  JavaScript evaluates an initializer once and keeps   *)
(* its value in a constant.  The({ e : x \in {v} }) is "e where x is v":   *)
(* v is evaluated once, however often e mentions x.                        *)
(***************************************************************************)
The(S) == CHOOSE x \in S : TRUE

(***************************************************************************)
(* Characters and strings                                                  *)
(***************************************************************************)
UpperChars == <<"A","B","C","D","E","F","G","H","I","J","K","L","M",
                "N","O","P","Q","R","S","T","U","V","W","X","Y","Z">>

LowerChars == <<"a","b","c","d","e","f","g","h","i","j","k","l","m",
                "n","o","p","q","r","s","t","u","v","w","x","y","z">>

Digits == {"0","1","2","3","4","5","6","7","8","9"}

LowerOf == [c \in {UpperChars[i] : i \in 1..26} |->
               LowerChars[CHOOSE i \in 1..26 : UpperChars[i] = c]]

UpperOf == [c \in {LowerChars[i] : i \in 1..26} |->
               UpperChars[CHOOSE i \in 1..26 : LowerChars[i] = c]]

\* String.prototype.toLowerCase / toUpperCase on one ASCII character
ToLowerChar(c) == IF c \in DOMAIN LowerOf THEN LowerOf[c] ELSE c

ToUpperChar(c) == IF c \in DOMAIN UpperOf THEN UpperOf[c] ELSE c

\* String.prototype.toLowerCase
ToLower(s) == [i \in 1..Len(s) |-> ToLowerChar(s[i])]

\* String.prototype.toUpperCase
ToUpper(s) == [i \in 1..Len(s) |-> ToUpperChar(s[i])]

IsAlpha(c) == c \in DOMAIN LowerOf \/ c \in DOMAIN UpperOf

\* the characters \s and String.prototype.trim treat as white space
WhiteSpace == {" ", "\t", "\n", "\r"}

\* the characters the regular-expression dot does not match
LineTerminators == {"\n", "\r"}

\* String.prototype.trim
Trim(s) ==
    IF \A i \in 1..Len(s) : s[i] \in WhiteSpace THEN <<>>
    ELSE SubSeq(s,
                CHOOSE i \in 1..Len(s) :
                    /\ s[i] \notin WhiteSpace
                    /\ \A j \in 1..(i - 1) : s[j] \in WhiteSpace,
                CHOOSE i \in 1..Len(s) :
                    /\ s[i] \notin WhiteSpace
                    /\ \A j \in (i + 1)..Len(s) : s[j] \in WhiteSpace)

\* s.split(/\s+/)[0] : the characters before the first run of white space
FirstToken(s) ==
    IF \A i \in 1..Len(s) : s[i] \notin WhiteSpace THEN s
    ELSE SubSeq(s, 1, (CHOOSE i \in 1..Len(s) :
                          /\ s[i] \in WhiteSpace
                          /\ \A j \in 1..(i - 1) : s[j] \notin WhiteSpace) - 1)

\* path.basename (POSIX): drop trailing slashes, keep what follows the last
\* remaining slash
basename(p) ==
    IF \A i \in 1..Len(p) : p[i] = "/" THEN <<>>
    ELSE The({ IF \A i \in 1..end : p[i] # "/" THEN SubSeq(p, 1, end)
               ELSE SubSeq(p,
                           (CHOOSE i \in 1..end :
                               /\ p[i] = "/"
                               /\ \A j \in (i + 1)..end : p[j] # "/") + 1,
                           end)
               : end \in {CHOOSE i \in 1..Len(p) :
                             /\ p[i] # "/"
                             /\ \A j \in (i + 1)..Len(p) : p[j] = "/"} })

\* String.prototype.includes
Includes(s, sub) ==
    \E i \in 1..(Len(s) - Len(sub) + 1) :
        \A k \in 1..Len(sub) : s[i + k - 1] = sub[k]

\* Array.prototype.includes / indexOf on a list of strings (strict equality)
IndexOf(list, x) ==
    IF \E i \in 1..Len(list) : list[i] = x
    THEN CHOOSE i \in 1..Len(list) :
             list[i] = x /\ \A j \in 1..(i - 1) : list[j] # x
    ELSE 0

\* Array.prototype.splice(index, 1)
Splice1(list, index) ==
    [i \in 1..(Len(list) - 1) |-> IF i < index THEN list[i] ELSE list[i + 1]]

Range(list) == {list[i] : i \in 1..Len(list)}

(***************************************************************************)
(* new URL(input): the part of the WHATWG URL parser that decides whether  *)
(* a string is an absolute URL and what its hostname is.  Hosts ending in  *)
(* a number are taken to be canonical dotted quads already, bracketed      *)
(* hosts canonical IPv6 literals, and ports in range; the "file" scheme is *)
(* not modelled.                                                           *)
(***************************************************************************)
SchemeChars(c) == IsAlpha(c) \/ c \in Digits \/ c \in {"+", "-", "."}

SpecialSchemes == { <<"h","t","t","p">>, <<"h","t","t","p","s">>,
                    <<"w","s">>, <<"w","s","s">>, <<"f","t","p">> }

ForbiddenHostChars ==
    {" ", "#", "/", ":", "<", ">", "?", "@", "[", "\\", "]", "^", "|"}

\* index of the first character of s (from position from) that is in set,
\* or Len(s) + 1
FirstIn(s, from, set) ==
    IF \A i \in from..Len(s) : s[i] \notin set THEN Len(s) + 1
    ELSE CHOOSE i \in from..Len(s) :
             /\ s[i] \in set
             /\ \A j \in from..(i - 1) : s[j] \notin set

URLFailure == [ok |-> FALSE, protocol |-> <<>>, hostname |-> <<>>]

\* host and port of an authority without its userinfo; hostEnd is the index
\* of the last character of the host
HostAndPort(hostport, special, bracket, hostEnd) ==
    LET host    == SubSeq(hostport, 1, hostEnd)
        portOk  == \/ hostEnd >= Len(hostport)
                   \/ /\ hostport[hostEnd + 1] = ":"
                      /\ \A i \in (hostEnd + 2)..Len(hostport) :
                             hostport[i] \in Digits
        hostOk  == IF bracket THEN hostEnd <= Len(hostport)
                   ELSE /\ special => hostEnd >= 1
                        /\ \A i \in 1..hostEnd :
                               /\ hostport[i] \notin ForbiddenHostChars
                               /\ special => hostport[i] # "%"
    IN  [ok |-> hostOk /\ portOk,
         hostname |-> IF special \/ bracket THEN ToLower(host) ELSE host]

ParseHostPort(hostport, special) ==
    IF hostport # <<>> /\ hostport[1] = "["
    THEN HostAndPort(hostport, special, TRUE, FirstIn(hostport, 1, {"]"}))
    ELSE HostAndPort(hostport, special, FALSE,
                     FirstIn(hostport, 1, {":"}) - 1)

\* the authority of a URL: what follows the last "@" is host and port
ParseAuthority(scheme, special, authority) ==
    The({ IF ~hp.ok THEN URLFailure
          ELSE [ok |-> TRUE, protocol |-> scheme, hostname |-> hp.hostname]
          : hp \in {ParseHostPort(
                       IF \A i \in 1..Len(authority) : authority[i] # "@"
                       THEN authority
                       ELSE SubSeq(authority,
                                   (CHOOSE i \in 1..Len(authority) :
                                       /\ authority[i] = "@"
                                       /\ \A j \in (i + 1)..Len(authority) :
                                              authority[j] # "@") + 1,
                                   Len(authority)),
                       special)} })

\* rest is what follows "scheme:" and slashes the number of characters that
\* introduce the authority
ParseAfterSlashes(scheme, special, rest, slashes) ==
    ParseAuthority(scheme, special,
                   SubSeq(rest, slashes + 1,
                          FirstIn(rest, slashes + 1,
                                  IF special THEN {"/", "\\", "?", "#"}
                                  ELSE {"/", "?", "#"}) - 1))

\* a special scheme skips any run of slashes and backslashes, another scheme
\* has an authority only after "//"
ParseAfterScheme(scheme, special, rest) ==
    IF special
    THEN ParseAfterSlashes(scheme, special, rest,
                           FirstIn(rest, 1, Range(rest) \ {"/", "\\"}) - 1)
    ELSE IF Len(rest) >= 2 /\ rest[1] = "/" /\ rest[2] = "/"
    THEN ParseAfterSlashes(scheme, special, rest, 2)
    ELSE [ok |-> TRUE, protocol |-> scheme, hostname |-> <<>>]

\* s is the input without surrounding white space, tabs and newlines; colon
\* is the index of its first character that cannot be part of a scheme
ParseScheme(s, colon) ==
    IF ~(colon >= 2 /\ colon <= Len(s) /\ s[colon] = ":" /\ IsAlpha(s[1]))
    THEN URLFailure
    ELSE The({ ParseAfterScheme(scheme, scheme \in SpecialSchemes,
                                SubSeq(s, colon + 1, Len(s)))
               : scheme \in {ToLower(SubSeq(s, 1, colon - 1))} })

ParseURL(input) ==
    The({ ParseScheme(s, FirstIn(s, 1, {c \in Range(s) : ~SchemeChars(c)}))
          : s \in {SelectSeq(Trim(input),
                             LAMBDA c : c \notin {"\t", "\n", "\r"})} })

(***************************************************************************)
(* Pattern matcher and identifier normalizers                              *)
(***************************************************************************)
\* new RegExp("^" + escaped pattern with * as .* + "$", "i").test(value)
RECURSIVE matchesPattern(_, _)
matchesPattern(value, pattern) ==
    IF pattern = <<>> THEN value = <<>>
    ELSE IF Head(pattern) = "*"
         THEN \/ matchesPattern(value, Tail(pattern))
              \/ /\ value # <<>>
                 /\ Head(value) \notin LineTerminators
                 /\ matchesPattern(Tail(value), pattern)
    ELSE /\ value # <<>>
         /\ ToLowerChar(Head(value)) = ToLowerChar(Head(pattern))
         /\ matchesPattern(Tail(value), Tail(pattern))

matchesAnyPattern(value, patterns) ==
    \E i \in 1..Len(patterns) : matchesPattern(value, patterns[i])

extractDomain(urlOrDomain) ==
    The({ IF url.ok THEN url.hostname ELSE ToLower(urlOrDomain)
          : url \in {ParseURL(urlOrDomain)} })

extractCommand(commandString) ==
    ToLower(basename(FirstToken(Trim(commandString))))

(***************************************************************************)
(* Baseline blocklists (src/config/defaults.ts)                            *)
(***************************************************************************)
DEFAULT_BLOCKED_DOMAINS ==
    << <<"l","o","c","a","l","h","o","s","t">>,
       <<"1","2","7",".","0",".","0",".","1">>,
       <<":",":","1">>,
       <<"[",":",":","1","]">>,
       <<"1","6","9",".","2","5","4",".","1","6","9",".","2","5","4">>,
       <<"1","6","9",".","2","5","4",".","*">>,
       <<"1","0",".","*">>,
       <<"1","7","2",".","1","6",".","*">>,
       <<"1","7","2",".","1","7",".","*">>,
       <<"1","7","2",".","1","8",".","*">>,
       <<"1","7","2",".","1","9",".","*">>,
       <<"1","7","2",".","2","0",".","*">>,
       <<"1","7","2",".","2","1",".","*">>,
       <<"1","7","2",".","2","2",".","*">>,
       <<"1","7","2",".","2","3",".","*">>,
       <<"1","7","2",".","2","4",".","*">>,
       <<"1","7","2",".","2","5",".","*">>,
       <<"1","7","2",".","2","6",".","*">>,
       <<"1","7","2",".","2","7",".","*">>,
       <<"1","7","2",".","2","8",".","*">>,
       <<"1","7","2",".","2","9",".","*">>,
       <<"1","7","2",".","3","0",".","*">>,
       <<"1","7","2",".","3","1",".","*">>,
       <<"1","9","2",".","1","6","8",".","*">>,
       <<"1","7","2",".","1","7",".","0",".","*">>,
       <<"1","0",".","0",".","0",".","*">>,
       <<"1","0",".","9","6",".","*">>,
       <<"f","e","8","0",":","*">>,
       <<"[","f","e","8","0",":","*">>,
       <<"f","c","0","0",":","*">>,
       <<"[","f","c","0","0",":","*">>,
       <<"f","d","0","0",":","*">>,
       <<"[","f","d","0","0",":","*">>,
       <<":",":","f","f","f","f",":","*">>,
       <<"[",":",":","f","f","f","f",":","*">> >>

DEFAULT_BLOCKED_COMMANDS ==
    << <<"r","m">>,
       <<"r","m","d","i","r">>,
       <<"d","e","l">>,
       <<"s","u","d","o">>,
       <<"s","u">>,
       <<"d","o","a","s">>,
       <<"c","h","m","o","d">>,
       <<"c","h","o","w","n">>,
       <<"c","h","g","r","p">>,
       <<"m","v">>,
       <<"m","k","f","s">>,
       <<"f","d","i","s","k">>,
       <<"d","d">>,
       <<"f","o","r","m","a","t">>,
       <<"a","p","t","-","g","e","t">>,
       <<"a","p","t">>,
       <<"y","u","m">>,
       <<"d","n","f">>,
       <<"p","a","c","m","a","n">>,
       <<"b","r","e","w">>,
       <<"b","a","s","h">>,
       <<"s","h">>,
       <<"z","s","h">>,
       <<"f","i","s","h">>,
       <<"c","s","h">>,
       <<"t","c","s","h">>,
       <<"n","c">>,
       <<"n","e","t","c","a","t">>,
       <<"n","c","a","t">>,
       <<"t","e","l","n","e","t">>,
       <<"p","a","s","s","w","d">>,
       <<"k","i","l","l">>,
       <<"k","i","l","l","a","l","l">>,
       <<"p","k","i","l","l">> >>

(***************************************************************************)
(* Policy store                                                            *)
(***************************************************************************)
\* createDefaultConfig(): empty allowlists, baseline blocklists (the
\* fileServer section plays no part in the policy and is left out)
createDefaultConfig ==
    [null            |-> FALSE,
     allowedDomains  |-> <<>>,
     blockedDomains  |-> DEFAULT_BLOCKED_DOMAINS,
     allowedCommands |-> <<>>,
     blockedCommands |-> DEFAULT_BLOCKED_COMMANDS]

\* let currentConfig: ProxyConfig | null = null
NullConfig ==
    [null            |-> TRUE,
     allowedDomains  |-> <<>>,
     blockedDomains  |-> <<>>,
     allowedCommands |-> <<>>,
     blockedCommands |-> <<>>]

ConfigKeys ==
    {"allowedDomains", "blockedDomains", "allowedCommands", "blockedCommands"}

\* the config file: absent (readFile fails with ENOENT), not valid JSON, or a
\* JSON object in which any of the four keys may be missing
JsonFile(ad, bd, ac, bc, missing) ==
    [kind            |-> "JSON",
     allowedDomains  |-> ad,
     blockedDomains  |-> bd,
     allowedCommands |-> ac,
     blockedCommands |-> bc,
     missing         |-> missing]

NoFile == [JsonFile(<<>>, <<>>, <<>>, <<>>, ConfigKeys) EXCEPT !.kind = "ENOENT"]

InvalidFile ==
    [JsonFile(<<>>, <<>>, <<>>, <<>>, ConfigKeys) EXCEPT !.kind = "INVALID"]

\* parsed.key ?? []
Field(parsed, key) == IF key \in parsed.missing THEN <<>> ELSE parsed[key]

\* JSON.stringify(config) as later read back by JSON.parse
Stringify(config) ==
    JsonFile(config.allowedDomains, config.blockedDomains,
             config.allowedCommands, config.blockedCommands, {})

\* [...new Set([...arr1, ...arr2])]: first occurrences, in order
RECURSIVE UniqueFrom(_, _, _)
UniqueFrom(list, i, seen) ==
    IF i > Len(list) THEN <<>>
    ELSE IF list[i] \in seen THEN UniqueFrom(list, i + 1, seen)
    ELSE <<list[i]>> \o UniqueFrom(list, i + 1, seen \cup {list[i]})

Unique(list) == UniqueFrom(list, 1, {})

\* (variant: the file's list replaces the baseline instead of joining it)
mergeUnique_fileOnly(arr1, arr2) == Unique(arr2)

mergeUnique(arr1, arr2) == Unique(arr1 \o arr2)

\* What an operation leaves behind: the cache, the file, and the error it
\* threw: "none", "write" (mkdir/writeFile rejected) or "blocklist"
World(config, file, error) ==
    [currentConfig |-> config, configFile |-> file, error |-> error]

Threw(w) == w.error # "none"

\* The outcomes of the file system calls made during one operation:
\* readFails  - readFile fails with an error other than ENOENT (EACCES, ...)
\* loadWrite  - the mkdir/writeFile of the save inside loadConfig succeeds
\* saveWrite  - the mkdir/writeFile of the operation's own save succeeds
IO == [readFails : BOOLEAN, loadWrite : BOOLEAN, saveWrite : BOOLEAN]

\* saveConfig(config): the cache is replaced only after writeFile succeeded
saveConfig(cur, file, config, writeOk) ==
    IF writeOk THEN World(config, Stringify(config), "none")
    ELSE World(cur, file, "write")

loadConfig(file, io) ==
    IF file.kind = "ENOENT"
    THEN saveConfig(createDefaultConfig, file, createDefaultConfig,
                    io.loadWrite)
    ELSE IF file.kind = "INVALID" \/ io.readFails
    THEN World(createDefaultConfig, file, "none")
    ELSE World([null            |-> FALSE,
                allowedDomains  |-> Field(file, "allowedDomains"),
                blockedDomains  |->
                    mergeUnique(DEFAULT_BLOCKED_DOMAINS,
                                Field(file, "blockedDomains")),
                allowedCommands |-> Field(file, "allowedCommands"),
                blockedCommands |->
                    mergeUnique(DEFAULT_BLOCKED_COMMANDS,
                                Field(file, "blockedCommands"))],
               file, "none")

getConfig(cur, file, io) ==
    IF cur.null THEN loadConfig(file, io) ELSE World(cur, file, "none")

resetConfig(cur, file, io) ==
    saveConfig(createDefaultConfig, file, createDefaultConfig, io.saveWrite)

\* (variant: the allowlist is consulted before the blocklist)
isDomainAllowed_allowlistFirst(cur, file, urlOrDomain, io) ==
    The({ [world  |-> w,
           status |->
              IF Threw(w) THEN "threw"
              ELSE IF matchesAnyPattern(domain,
                                        w.currentConfig.allowedDomains)
                   THEN "ALLOWED"
              ELSE IF matchesAnyPattern(domain,
                                        w.currentConfig.blockedDomains)
                   THEN "BLOCKED"
              ELSE "NEEDS_APPROVAL"]
          : w \in {getConfig(cur, file, io)},
            domain \in {extractDomain(urlOrDomain)} })

\* An evaluator's outcome: the world after its getConfig and the status
\* ("threw" when getConfig rejected)
isDomainAllowed(cur, file, urlOrDomain, io) ==
    The({ [world  |-> w,
           status |->
              IF Threw(w) THEN "threw"
              ELSE IF matchesAnyPattern(domain,
                                        w.currentConfig.blockedDomains)
                   THEN "BLOCKED"
              ELSE IF matchesAnyPattern(domain,
                                        w.currentConfig.allowedDomains)
                   THEN "ALLOWED"
              ELSE "NEEDS_APPROVAL"]
          : w \in {getConfig(cur, file, io)},
            domain \in {extractDomain(urlOrDomain)} })

isCommandAllowed(cur, file, commandString, io) ==
    The({ [world  |-> w,
           status |->
              IF Threw(w) THEN "threw"
              ELSE IF matchesAnyPattern(command,
                                        w.currentConfig.blockedCommands)
                   THEN "BLOCKED"
              ELSE IF matchesAnyPattern(command,
                                        w.currentConfig.allowedCommands)
                   THEN "ALLOWED"
              ELSE "NEEDS_APPROVAL"]
          : w \in {getConfig(cur, file, io)},
            command \in {extractCommand(commandString)} })

\* config.allowedDomains.push(domain) / splice(index, 1) followed by
\* saveConfig(config).  getConfig() copies the config object but not its
\* arrays, so push and splice act on the very arrays currentConfig holds: the
\* cache shows the change as soon as it is made, whatever saveConfig does.
SaveMutated(w, mutated, writeOk) ==
    saveConfig(mutated, w.configFile, mutated, writeOk)

\* (variant: the blocklist is not consulted before the push)
addDomainToAllowlist_unguarded(cur, file, urlOrDomain, io) ==
    The({ IF Threw(w) THEN w
          ELSE IF IndexOf(w.currentConfig.allowedDomains, domain) = 0
               THEN SaveMutated(w, [w.currentConfig EXCEPT
                                      !.allowedDomains = Append(@, domain)],
                                io.saveWrite)
          ELSE w
          : w \in {getConfig(cur, file, io)},
            domain \in {extractDomain(urlOrDomain)} })

addDomainToAllowlist(cur, file, urlOrDomain, io) ==
    The({ IF Threw(w) THEN w
          ELSE IF matchesAnyPattern(domain, w.currentConfig.blockedDomains)
               THEN World(w.currentConfig, w.configFile, "blocklist")
          ELSE IF IndexOf(w.currentConfig.allowedDomains, domain) = 0
               THEN SaveMutated(w, [w.currentConfig EXCEPT
                                      !.allowedDomains = Append(@, domain)],
                                io.saveWrite)
          ELSE w
          : w \in {getConfig(cur, file, io)},
            domain \in {extractDomain(urlOrDomain)} })

addCommandToAllowlist(cur, file, commandString, io) ==
    The({ IF Threw(w) THEN w
          ELSE IF matchesAnyPattern(command,
                                    w.currentConfig.blockedCommands)
               THEN World(w.currentConfig, w.configFile, "blocklist")
          ELSE IF IndexOf(w.currentConfig.allowedCommands, command) = 0
               THEN SaveMutated(w, [w.currentConfig EXCEPT
                                      !.allowedCommands = Append(@, command)],
                                io.saveWrite)
          ELSE w
          : w \in {getConfig(cur, file, io)},
            command \in {extractCommand(commandString)} })

\* (variant: the entry found is saved back instead of being spliced out)
removeDomainFromAllowlist_keepsEntry(cur, file, urlOrDomain, io) ==
    The({ IF Threw(w) THEN w
          ELSE IF IndexOf(w.currentConfig.allowedDomains, domain) # 0
               THEN SaveMutated(w, w.currentConfig, io.saveWrite)
          ELSE w
          : w \in {getConfig(cur, file, io)},
            domain \in {extractDomain(urlOrDomain)} })

removeDomainFromAllowlist(cur, file, urlOrDomain, io) ==
    The({ IF Threw(w) THEN w
          ELSE IF IndexOf(w.currentConfig.allowedDomains, domain) # 0
               THEN SaveMutated(w, [w.currentConfig EXCEPT
                                      !.allowedDomains =
                                         Splice1(@, IndexOf(@, domain))],
                                io.saveWrite)
          ELSE w
          : w \in {getConfig(cur, file, io)},
            domain \in {extractDomain(urlOrDomain)} })

removeCommandFromAllowlist(cur, file, commandString, io) ==
    The({ IF Threw(w) THEN w
          ELSE IF IndexOf(w.currentConfig.allowedCommands, command) # 0
               THEN SaveMutated(w, [w.currentConfig EXCEPT
                                      !.allowedCommands =
                                         Splice1(@, IndexOf(@, command))],
                                io.saveWrite)
          ELSE w
          : w \in {getConfig(cur, file, io)},
            command \in {extractCommand(commandString)} })

(***************************************************************************)
(* Gated tools                                                             *)
(***************************************************************************)
VALID_METHODS == << <<"G","E","T">>, <<"P","O","S","T">>, <<"P","U","T">>,
                    <<"D","E","L","E","T","E">>, <<"P","A","T","C","H">>,
                    <<"H","E","A","D">> >>

\* (variant: the list lacks "&&")
DANGEROUS_PATTERNS_noAndAnd ==
    << <<";">>, <<"|">>, <<"|","|">>, <<">">>, <<"<">>, <<"$","(">>,
       <<"BACKTICK">>, <<"$","{">> >>

\* (the backquote character is written "BACKTICK")
DANGEROUS_PATTERNS == << <<";">>, <<"|">>, <<"&","&">>, <<"|","|">>, <<">">>,
                         <<"<">>, <<"$","(">>, <<"BACKTICK">>, <<"$","{">> >>

\* validateMethod: no method means GET; TRUE when it does not throw
validateMethod(method) ==
    method = <<>> \/ IndexOf(VALID_METHODS, ToUpper(method)) # 0

\* validateUrl: "ok", or the error it throws
validateUrl(url) ==
    IF url = <<>> THEN "url_required"
    ELSE The({ IF ~parsed.ok THEN "invalid_url"
               ELSE IF parsed.protocol \notin {<<"h","t","t","p">>,
                                               <<"h","t","t","p","s">>}
                    THEN "invalid_protocol"
               ELSE "ok"
               : parsed \in {ParseURL(url)} })

\* parsedUrl.href, as far as the hostname is concerned: scheme and host are
\* serialized; credentials, port and path do not bear on the hostname
Href(url) ==
    The({ parsed.protocol \o <<":", "/", "/">> \o parsed.hostname \o <<"/">>
          : parsed \in {ParseURL(url)} })

\* containsDangerousPatterns: TRUE when some pattern occurs in value
containsDangerousPatterns(value) ==
    \E i \in 1..Len(DANGEROUS_PATTERNS) : Includes(value, DANGEROUS_PATTERNS[i])

\* validateArgs(args).valid
validateArgs(args) ==
    \A i \in 1..Len(args) : ~containsDangerousPatterns(args[i])

\* (variant: any approval is remembered)
Remember_anyApproval(approve) == approve # "none"

\* input.approve === "always": the approval is to be remembered
Remember(approve) == approve = "always"

\* A tool's response together with the world it leaves behind.  named is the
\* identifier the response carries (in its domain/command field or in its
\* error message); invoked tells whether fetch() / spawn() was called.
Response(w, status, error, named, invoked) ==
    [world |-> w, status |-> status, error |-> error, named |-> named,
     invoked |-> invoked]

\* proxyFetch, step 4: validateMethod, then the request itself
ProxyFetchRequest(w, input, fetchOk) ==
    IF Threw(w)
    THEN Response(w, "error", w.error, <<>>, FALSE)
    ELSE IF ~validateMethod(input.method)
    THEN Response(w, "error", "invalid_method", <<>>, FALSE)
    ELSE IF ~fetchOk
    THEN Response(w, "error", "fetch", <<>>, TRUE)
    ELSE Response(w, "success", "none", <<>>, TRUE)

\* proxyFetch, step 3: the approval flow on the evaluator's outcome
ProxyFetchApproval(check, domain, input, io, fetchOk) ==
    IF check.status = "threw"
    THEN Response(check.world, "error", check.world.error, <<>>, FALSE)
    ELSE IF check.status = "BLOCKED"
    THEN Response(check.world, "error", "blocked", domain, FALSE)
    ELSE IF check.status = "NEEDS_APPROVAL" /\ input.approve = "none"
    THEN Response(check.world, "needs_approval", "none", domain, FALSE)
    ELSE IF check.status = "NEEDS_APPROVAL" /\ Remember(input.approve)
    THEN ProxyFetchRequest(addDomainToAllowlist(check.world.currentConfig,
                                                check.world.configFile,
                                                domain, io),
                           input, fetchOk)
    ELSE ProxyFetchRequest(check.world, input, fetchOk)

proxyFetch(cur, file, input, io, fetchOk) ==
    IF validateUrl(input.url) # "ok"
    THEN Response(World(cur, file, "none"), "error", validateUrl(input.url),
                  <<>>, FALSE)
    ELSE ProxyFetchApproval(isDomainAllowed(cur, file, Href(input.url), io),
                            extractDomain(input.url), input, io, fetchOk)

\* networkExec, step 6: spawn
NetworkExecSpawn(w, spawnOk) ==
    IF Threw(w)
    THEN Response(w, "error", w.error, <<>>, FALSE)
    ELSE IF ~spawnOk
    THEN Response(w, "error", "spawn", <<>>, TRUE)
    ELSE Response(w, "success", "none", <<>>, TRUE)

\* networkExec, step 5: the approval flow on the evaluator's outcome
NetworkExecApproval(check, commandLower, input, io, spawnOk) ==
    IF check.status = "threw"
    THEN Response(check.world, "error", check.world.error, <<>>, FALSE)
    ELSE IF check.status = "BLOCKED"
    THEN Response(check.world, "error", "blocked", commandLower, FALSE)
    ELSE IF check.status = "NEEDS_APPROVAL" /\ input.approve = "none"
    THEN Response(check.world, "needs_approval", "none", commandLower, FALSE)
    ELSE IF check.status = "NEEDS_APPROVAL" /\ Remember(input.approve)
    THEN NetworkExecSpawn(addCommandToAllowlist(check.world.currentConfig,
                                                check.world.configFile,
                                                commandLower, io),
                          spawnOk)
    ELSE NetworkExecSpawn(check.world, spawnOk)

networkExec(cur, file, input, io, spawnOk) ==
    IF containsDangerousPatterns(input.command)
    THEN Response(World(cur, file, "none"), "error", "dangerous_command",
                  <<>>, FALSE)
    ELSE IF ~validateArgs(input.args)
    THEN Response(World(cur, file, "none"), "error", "dangerous_argument",
                  <<>>, FALSE)
    ELSE NetworkExecApproval(isCommandAllowed(cur, file, input.command, io),
                             ToLower(basename(input.command)),
                             input, io, spawnOk)
(***************************************************************************)
(* Rate limiter (src/utils/rate-limiter.ts)                                *)
(*                                                                         *)
(* Times are milliseconds, as Date.now() gives them.  requestStore is the  *)
(* Map from identifier to the timestamps recorded for it: a function whose *)
(* domain is the set of keys present.                                      *)
(***************************************************************************)
DEFAULT_WINDOW_MS == 60000

DEFAULT_MAX_REQUESTS == 100

DEFAULT_RATE_LIMIT ==
    [maxRequests |-> DEFAULT_MAX_REQUESTS, windowMs |-> DEFAULT_WINDOW_MS]

CLEANUP_INTERVAL_MS == 300000

\* The limiter's module state
Limiter(store, cleanedAt) == [requestStore |-> store, lastCleanup |-> cleanedAt]

\* Math.min(...timestamps) / Math.max(a, b)
MinOf(timestamps) ==
    CHOOSE t \in Range(timestamps) : \A u \in Range(timestamps) : t <= u

MaxOf2(a, b) == IF a >= b THEN a ELSE b

\* cleanupOldEntries: every record keeps the timestamps younger than twice
\* the DEFAULT window; a record left without timestamps is deleted
cleanupOldEntries(store, time) ==
    The({ Limiter([key \in {k \in DOMAIN kept : kept[k] # <<>>} |-> kept[key]],
                  time)
          : kept \in {[key \in DOMAIN store |->
                         SelectSeq(store[key],
                                   LAMBDA ts :
                                      time - ts < DEFAULT_WINDOW_MS * 2)]} })

\* checkRateLimit after its periodic cleanup: timestamps is the record of
\* identifier filtered to the window, which is stored before the limit is
\* tested
Admission(l, identifier, config, time, timestamps) ==
    IF Len(timestamps) >= config.maxRequests
    THEN [limiter |-> Limiter((identifier :> timestamps) @@ l.requestStore,
                              l.lastCleanup),
          result  |-> [allowed |-> FALSE, remaining |-> 0,
                       retryAfterMs |->
                          MaxOf2(0, MinOf(timestamps) + config.windowMs
                                       - time)]]
    ELSE [limiter |-> Limiter((identifier :> Append(timestamps, time))
                                 @@ l.requestStore,
                              l.lastCleanup),
          result  |-> [allowed |-> TRUE,
                       remaining |-> config.maxRequests
                                        - (Len(timestamps) + 1)]]

\* ts >= windowStart, with windowStart = now - config.windowMs
InWindow(ts, time, config) == ts >= time - config.windowMs

Windowed(l, identifier, config, time) ==
    SelectSeq(IF identifier \in DOMAIN l.requestStore
              THEN l.requestStore[identifier] ELSE <<>>,
              LAMBDA ts : InWindow(ts, time, config))

\* checkRateLimit(identifier, config) called when Date.now() = time: the
\* limiter's state afterwards and the object returned
checkRateLimit(store, cleanedAt, identifier, config, time) ==
    The({ Admission(l, identifier, config, time,
                    Windowed(l, identifier, config, time))
          : l \in {IF time - cleanedAt > CLEANUP_INTERVAL_MS
                   THEN cleanupOldEntries(store, time)
                   ELSE Limiter(store, cleanedAt)} })

\* clearRateLimit(identifier)
clearRateLimit(store, identifier) ==
    [key \in DOMAIN store \ {identifier} |-> store[key]]

(***************************************************************************)
(* File registry (server/file-registry.ts)                                 *)
(*                                                                         *)
(* files is the Map from id to FileRegistration, in insertion order: a     *)
(* sequence of registrations with distinct ids.  Of a registration the     *)
(* model keeps the id, which also names the copy in the serve directory,   *)
(* and createdAt and expiresAt in milliseconds.                            *)
(***************************************************************************)
DEFAULT_EXPIRY_MINUTES == 60

Absent == [id |-> 0, createdAt |-> 0, expiresAt |-> 0]

\* this.cleanupInterval and the timers of setInterval: whether the field
\* holds a timer, and how many timers set by initialize() are active
Sweeps(held, active) == [held |-> held, active |-> active]

\* initialize(): a new interval timer is set and assigned to the field
initialize(interval) == Sweeps(TRUE, interval.active + 1)

\* shutdown(): clearInterval on the timer the field holds, if any
shutdown(interval) ==
    IF interval.held THEN Sweeps(FALSE, interval.active - 1) ELSE interval

\* this.files.has(id), this.files.get(id), this.files.delete(id)
Has(index, id) == \E i \in 1..Len(index) : index[i].id = id

Lookup(index, id) ==
    IF Has(index, id) THEN index[CHOOSE i \in 1..Len(index) : index[i].id = id]
    ELSE Absent

Delete(index, id) == SelectSeq(index, LAMBDA registration : registration.id # id)

\* new Date(Date.now() + (options.expiryMinutes || DEFAULT_EXPIRY_MINUTES)
\*          * 60 * 1000); expiryMinutes is << >> when the option is not given
expiresAt(expiryMinutes, time) ==
    time + (IF expiryMinutes = << >> \/ expiryMinutes[1] = 0
            THEN DEFAULT_EXPIRY_MINUTES ELSE expiryMinutes[1]) * 60 * 1000

\* registration.expiresAt < new Date()
Expired(registration, time) == registration.expiresAt < time

\* get(id): the registration returned (Absent for undefined) and whether
\* removeFile(id) was called
get(index, id, time) ==
    IF Has(index, id) /\ Expired(Lookup(index, id), time)
    THEN [registration |-> Absent, removes |-> TRUE]
    ELSE [registration |-> Lookup(index, id), removes |-> FALSE]

\* fsPromises.unlink(servePath): the serve directory afterwards.  The copy
\* goes when unlink succeeds; ENOENT and any other error leave the directory
\* as it is
unlink(directory, id, succeeds) ==
    IF succeeds THEN directory \ {id} ELSE directory

\* the first registration of the index that the loop of cleanup() removes:
\* the Map iterator passes over those that have not expired before time
FirstExpired(index, time) ==
    IF \E i \in 1..Len(index) : Expired(index[i], time)
    THEN index[CHOOSE i \in 1..Len(index) :
                  /\ Expired(index[i], time)
                  /\ \A j \in 1..(i - 1) : ~Expired(index[j], time)]
    ELSE Absent

(***************************************************************************)
(* HTTP file server (server/http-server.ts)                                *)
(*                                                                         *)
(* A request is its method and its request target (req.url), a string.     *)
(* The targets of the model are made of "/", "?", ".", "-", digits and     *)
(* letters: they carry no scheme, no backslash and no percent escape.      *)
(***************************************************************************)
DEFAULT_PORT == 8765

\* crypto.randomUUID() for the n-th file registered: 36 characters
UuidStem ==
    <<"0","0","0","0","0","0","0","0","-","0","0","0","0","-","4","0","0",
      "0","-","a","0","0","0","-","0","0","0","0","0","0","0","0","0",
      "0","0">>

Uuid(n) == Append(UuidStem, CHOOSE d \in Digits : d = ToString(n))

\* the key of the index that a file id in a request names (0: none; the keys
\* of the Map are compared as they are written)
RegistryId(fileId) ==
    IF \E n \in 1..9 : Uuid(n) = fileId
    THEN CHOOSE n \in 1..9 : Uuid(n) = fileId
    ELSE 0

\* new URL(req.url || "/", `http://localhost:${this.port}`).pathname before
\* its dot segments are resolved; ok is FALSE when the constructor throws
\* (a target that starts with "//" names a host, which must not be empty)
RequestURL(url) ==
    The({ IF Len(input) >= 2 /\ input[1] = "/" /\ input[2] = "/"
          THEN The({ IF hostEnd = 3 THEN [ok |-> FALSE, path |-> << >>]
                     ELSE [ok |-> TRUE,
                           path |-> SubSeq(input, hostEnd,
                                      FirstIn(input, hostEnd, {"?", "#"}) - 1)]
                     : hostEnd \in {FirstIn(input, 3, {"/", "?", "#"})} })
          ELSE [ok |-> TRUE,
                path |-> (IF input[1] = "/" THEN << >> ELSE <<"/">>)
                         \o SubSeq(input, 1,
                                   FirstIn(input, 1, {"?", "#"}) - 1)]
          : input \in {IF url = << >> THEN <<"/">> ELSE url} })

\* the segments of a path from position from on, "." dropped and ".."
\* taking back the segment before it, as the URL parser resolves them
RECURSIVE Segments(_, _, _)
Segments(path, from, parts) ==
    IF from > Len(path) THEN parts
    ELSE Segments(path, FirstIn(path, from, {"/"}) + 1,
            The({ IF segment = <<".">> THEN parts
                  ELSE IF segment = <<".", ".">>
                       THEN SubSeq(parts, 1, Len(parts) - 1)
                       ELSE Append(parts, segment)
                  : segment \in {SubSeq(path, from,
                                    FirstIn(path, from, {"/"}) - 1)} }))

\* url.pathname.split("/").filter(Boolean)
pathParts(path) ==
    SelectSeq(Segments(path, 2, << >>), LAMBDA part : part # << >>)

HexChars ==
    Digits \cup {"a", "b", "c", "d", "e", "f", "A", "B", "C", "D", "E", "F"}

\* filename.match(/^([0-9a-f-]{36})\.[^.]+$/i): match[1], or << >> when
\* the filename does not match
Match(filename) ==
    IF /\ Len(filename) >= 38
       /\ \A i \in 1..36 : filename[i] \in HexChars \cup {"-"}
       /\ filename[37] = "."
       /\ \A i \in 38..Len(filename) : filename[i] # "."
    THEN SubSeq(filename, 1, 36)
    ELSE << >>

\* what a request was answered with: the status, whether registry.get was
\* called, whether that call started a removeFile and whether the served
\* copy was opened
Reply(status, looksUp, removes, streams) ==
    [status |-> status, looksUp |-> looksUp, removes |-> removes,
     streams |-> streams]

\* handleRequest from const filename on
ServeFile(method, parts, index, time) ==
    The({ IF fileId = << >> THEN Reply(404, FALSE, FALSE, FALSE)
          ELSE The({ IF r.registration = Absent
                     THEN Reply(404, TRUE, r.removes, FALSE)
                     ELSE Reply(200, TRUE, FALSE, method # "HEAD")
                     : r \in {get(index, RegistryId(fileId), time)} })
          : fileId \in {Match(IF parts = << >> THEN << >>
                              ELSE parts[Len(parts)])} })

\* handleRequest, and the catch of the listener of createServer, which
\* answers 500 when handleRequest throws
handleRequest(method, url, index, time) ==
    IF method = "OPTIONS" THEN Reply(204, FALSE, FALSE, FALSE)
    ELSE IF method # "GET" /\ method # "HEAD"
         THEN Reply(405, FALSE, FALSE, FALSE)
         ELSE The({ IF ~parsed.ok THEN Reply(500, FALSE, FALSE, FALSE)
                    ELSE ServeFile(method, pathParts(parsed.path), index, time)
                    : parsed \in {RequestURL(url)} })
(***************************************************************************)
(* Policy store: overlapping calls                                         *)
(*                                                                         *)
(* { ...config } copies the four references of a config object, not the    *)
(* arrays: the copies share the allowlist arrays with the original.  To    *)
(* follow calls that overlap, the allowlist arrays are kept in a heap (a   *)
(* sequence; the reference of an array is its index) and a config object   *)
(* is the references of its allowlists and the values of its blocklists,   *)
(* which nothing changes in place.                                         *)
(***************************************************************************)
Object(allowedDomains, allowedCommands, blockedDomains, blockedCommands) ==
    [allowedDomains  |-> allowedDomains,
     allowedCommands |-> allowedCommands,
     blockedDomains  |-> blockedDomains,
     blockedCommands |-> blockedCommands]

\* currentConfig = null
NoObject == Object(0, 0, << >>, << >>)

\* the config that an object stands for
View(object, heap) ==
    IF object = NoObject THEN NullConfig
    ELSE [null            |-> FALSE,
          allowedDomains  |-> heap[object.allowedDomains],
          blockedDomains  |-> object.blockedDomains,
          allowedCommands |-> heap[object.allowedCommands],
          blockedCommands |-> object.blockedCommands]

\* a config object with arrays of its own: what JSON.parse and
\* createDefaultConfig() build
Allocate(heap, config) ==
    [arrays |-> heap \o <<config.allowedDomains, config.allowedCommands>>,
     object |-> Object(Len(heap) + 1, Len(heap) + 2,
                       config.blockedDomains, config.blockedCommands)]

\* an addDomainToAllowlist / addCommandToAllowlist call: where it stands,
\* its argument, its config object and the data it hands to writeFile
Writer(pc, kind, value, config, data) ==
    [pc |-> pc, kind |-> kind, value |-> value, config |-> config,
     data |-> data]

\* the allowlist a call extends and the identifier it adds
ListOf(writer) ==
    IF writer.kind = "domain" THEN "allowedDomains" ELSE "allowedCommands"

BlocklistOf(writer) ==
    IF writer.kind = "domain" THEN "blockedDomains" ELSE "blockedCommands"

IdentifierOf(writer) ==
    IF writer.kind = "domain" THEN extractDomain(writer.value)
    ELSE extractCommand(writer.value)

\* addDomainToAllowlist / addCommandToAllowlist from the return of
\* getConfig() up to the await of ensureConfigDir() in saveConfig: the
\* heap and the call afterwards
Resume(writer, config, heap) ==
    IF matchesAnyPattern(IdentifierOf(writer), config[BlocklistOf(writer)])
    THEN [arrays |-> heap, writer |-> [writer EXCEPT !.pc = "rejected"]]
    ELSE IF IdentifierOf(writer) \in Range(heap[config[ListOf(writer)]])
    THEN [arrays |-> heap, writer |-> [writer EXCEPT !.pc = "done"]]
    ELSE [arrays |-> [heap EXCEPT ![config[ListOf(writer)]] =
                          Append(@, IdentifierOf(writer))],
          writer |-> [writer EXCEPT !.pc = "mkdir", !.config = config]]
(***************************************************************************)
(* Tunnel supervisor (src/server/tunnel-manager.ts)                        *)
(***************************************************************************)
\* private maxRestarts = 3
maxRestarts == 3

\* how many closures of startTunnel() there are at a time
MaxChildren == 2

\* A subprocess with the closure that startTunnel() made for it.  state is
\* "none" before it is spawned, "alive" while no signal has reached it,
\* "deaf" once it has ignored a SIGTERM, "dying" once a signal that ends it
\* has reached it, "closed" once its close handler has run.  resolved is
\* the closure's variable of that name, timer whether the thirty second
\* timer of the closure is pending, timedOut whether that timer fired on
\* the unresolved attempt before the subprocess closed.
Child(state, resolved, timer, timedOut) ==
    [state |-> state, resolved |-> resolved, timer |-> timer,
     timedOut |-> timedOut]

NoChild == Child("none", FALSE, FALSE, FALSE)

\* the close handler of a subprocess has run: its closure is kept for as
\* long as its timer is pending, and is garbage after that
Closed(child) ==
    IF child.timer THEN Child("closed", child.resolved, TRUE, FALSE)
    ELSE NoChild

\* the subprocess has been spawned and its close event has not been handled
Live(child) == child.state \in {"alive", "deaf", "dying"}

\* ChildProcess.killed: kill() has delivered a signal to the subprocess
Killed(child) == child.state \in {"deaf", "dying"}

\* the subprocess spawned next: the first that has not been spawned
NextChild(kids) ==
    IF \E k \in DOMAIN kids : kids[k].state = "none"
    THEN CHOOSE k \in DOMAIN kids :
             /\ kids[k].state = "none"
             /\ \A j \in DOMAIN kids : kids[j].state = "none" => k <= j
    ELSE 0

\* isRunning()
isRunning(proc, url) == proc # 0 /\ url # 0

\* what a SIGTERM can do to a subprocess: cloudflared exits on it, a
\* subprocess that is stuck or handles the signal otherwise lives on
Sigterm(state) ==
    IF state = "alive" THEN {"deaf", "dying"} ELSE {state}

\* what a SIGKILL does to a subprocess
Sigkill(state) ==
    IF state \in {"alive", "deaf"} THEN "dying" ELSE state

(***************************************************************************)
(* spawnWithTimeout (tools/network-exec.ts)                                *)
(***************************************************************************)
\* a spawned command: the child's state as above, the closure's killed
\* flag, whether the timeout timer and the grace timer are pending, and
\* how the promise settled
Exec(state, killed, timeoutId, grace, settled) ==
    [state |-> state, killed |-> killed, timeoutId |-> timeoutId,
     grace |-> grace, settled |-> settled]

NoExec == Exec("none", FALSE, FALSE, FALSE, "pending")

(***************************************************************************)
(* Regular expressions (RegExp.prototype.test)                             *)
(***************************************************************************)
\* A regular expression is kept as its source text.  The sources of this
\* program use the assertions ^ and $, escaped characters, the dot,
\* character classes without ranges, and the quantifiers *, + and ?.
Quantifiers == {"*", "+", "?"}

\* where the class that opens at the head of the source closes
RECURSIVE ClassEnd(_, _)
ClassEnd(source, i) ==
    IF i > Len(source) THEN Len(source)
    ELSE IF source[i] = "]" THEN i
    ELSE IF source[i] = "\\" THEN ClassEnd(source, i + 2)
    ELSE ClassEnd(source, i + 1)

\* the first term of a source: an assertion, or the characters that an
\* atom accepts, and how much of the source it takes
Term(kind, chars, any, len) ==
    [kind |-> kind, chars |-> chars, any |-> any, len |-> len, quant |-> "1"]

FirstTerm(source) ==
    IF Head(source) = "^" THEN Term("start", {}, FALSE, 1)
    ELSE IF Head(source) = "$" THEN Term("end", {}, FALSE, 1)
    ELSE IF Head(source) = "\\" /\ Len(source) > 1
         THEN Term("atom", {source[2]}, FALSE, 2)
    ELSE IF Head(source) = "." THEN Term("atom", {}, TRUE, 1)
    ELSE IF Head(source) = "["
         THEN Term("atom",
                   {source[i] : i \in 2..(ClassEnd(source, 2) - 1)} \ {"\\"},
                   FALSE, ClassEnd(source, 2))
    ELSE Term("atom", {Head(source)}, FALSE, 1)

\* the terms of a source, each atom with its quantifier
RECURSIVE RegExpTerms(_)
RegExpTerms(source) ==
    IF source = << >> THEN << >>
    ELSE The({ IF /\ term.kind = "atom"
                  /\ Len(source) > term.len
                  /\ source[term.len + 1] \in Quantifiers
               THEN <<[term EXCEPT !.quant = source[term.len + 1]]>>
                    \o RegExpTerms(SubSeq(source, term.len + 2, Len(source)))
               ELSE <<term>>
                    \o RegExpTerms(SubSeq(source, term.len + 1, Len(source))) :
               term \in {FirstTerm(source)} })

\* an atom accepts a character; the dot accepts all but line terminators
Accepts(term, char, ignoreCase) ==
    IF term.any THEN char \notin LineTerminators
    ELSE IF ignoreCase
         THEN ToLowerChar(char) \in {ToLowerChar(c) : c \in term.chars}
    ELSE char \in term.chars

\* the terms match a prefix of the value (all of it before "$")
RECURSIVE MatchHere(_, _, _)
MatchHere(terms, value, ignoreCase) ==
    IF terms = << >> THEN TRUE
    ELSE IF Head(terms).kind = "end"
         THEN value = << >> /\ MatchHere(Tail(terms), value, ignoreCase)
    ELSE IF Head(terms).kind = "start" THEN FALSE
    ELSE IF Head(terms).quant = "1"
         THEN /\ value # << >>
              /\ Accepts(Head(terms), Head(value), ignoreCase)
              /\ MatchHere(Tail(terms), Tail(value), ignoreCase)
    ELSE IF Head(terms).quant = "?"
         THEN \/ /\ value # << >>
                 /\ Accepts(Head(terms), Head(value), ignoreCase)
                 /\ MatchHere(Tail(terms), Tail(value), ignoreCase)
              \/ MatchHere(Tail(terms), value, ignoreCase)
    ELSE IF Head(terms).quant = "*"
         THEN \/ MatchHere(Tail(terms), value, ignoreCase)
              \/ /\ value # << >>
                 /\ Accepts(Head(terms), Head(value), ignoreCase)
                 /\ MatchHere(terms, Tail(value), ignoreCase)
    ELSE /\ value # << >>
         /\ Accepts(Head(terms), Head(value), ignoreCase)
         /\ MatchHere(<<[Head(terms) EXCEPT !.quant = "*"]>> \o Tail(terms),
                      Tail(value), ignoreCase)

\* pattern.test(value): a match that begins anywhere, or at the start
\* after "^"
TestTerms(terms, value, ignoreCase) ==
    IF terms # << >> /\ Head(terms).kind = "start"
    THEN MatchHere(Tail(terms), value, ignoreCase)
    ELSE \E i \in 1..(Len(value) + 1) :
             MatchHere(terms, SubSeq(value, i, Len(value)), ignoreCase)

RegExpTest(pattern, value) ==
    TestTerms(RegExpTerms(pattern.source), value, pattern.ignoreCase)

(***************************************************************************)
(* node:path on POSIX                                                      *)
(***************************************************************************)
\* process.cwd()
cwd == <<"/","w">>

\* the segments between the slashes of a path
RECURSIVE SplitPath(_, _)
SplitPath(path, segment) ==
    IF path = << >> THEN <<segment>>
    ELSE IF Head(path) = "/"
         THEN <<segment>> \o SplitPath(Tail(path), << >>)
    ELSE SplitPath(Tail(path), Append(segment, Head(path)))

\* normalizeString: "." and empty segments go, ".." takes the segment
\* before it, or stays when there is none and the path is relative
RECURSIVE NormalizeSegments(_, _, _)
NormalizeSegments(segments, out, allowAboveRoot) ==
    IF segments = << >> THEN out
    ELSE IF Head(segments) \in {<< >>, <<".">>}
         THEN NormalizeSegments(Tail(segments), out, allowAboveRoot)
    ELSE IF Head(segments) = <<".", ".">>
         THEN IF out # << >> /\ out[Len(out)] # <<".", ".">>
              THEN NormalizeSegments(Tail(segments),
                       SubSeq(out, 1, Len(out) - 1), allowAboveRoot)
              ELSE IF allowAboveRoot
              THEN NormalizeSegments(Tail(segments),
                       Append(out, <<".", ".">>), allowAboveRoot)
              ELSE NormalizeSegments(Tail(segments), out, allowAboveRoot)
    ELSE NormalizeSegments(Tail(segments), Append(out, Head(segments)),
                           allowAboveRoot)

RECURSIVE JoinPath(_)
JoinPath(segments) ==
    IF segments = << >> THEN << >>
    ELSE IF Len(segments) = 1 THEN Head(segments)
    ELSE Head(segments) \o <<"/">> \o JoinPath(Tail(segments))

normalizeString(path, allowAboveRoot) ==
    JoinPath(NormalizeSegments(SplitPath(path, << >>), << >>, allowAboveRoot))

IsAbsolute(path) == path # << >> /\ Head(path) = "/"

\* path.normalize
normalize(path) ==
    IF path = << >> THEN <<".">>
    ELSE The({ IF body = << >>
               THEN IF IsAbsolute(path) THEN <<"/">>
                    ELSE IF path[Len(path)] = "/" THEN <<".", "/">>
                    ELSE <<".">>
               ELSE (IF IsAbsolute(path) THEN <<"/">> ELSE << >>)
                    \o body
                    \o (IF path[Len(path)] = "/" THEN <<"/">> ELSE << >>) :
               body \in {normalizeString(path, ~IsAbsolute(path))} })

\* path.resolve of one argument
resolve(path) ==
    <<"/">> \o normalizeString(
        IF IsAbsolute(path) THEN path
        ELSE IF path = << >> THEN cwd
        ELSE cwd \o <<"/">> \o path, FALSE)

(***************************************************************************)
(* Sensitive paths (src/utils/file-blocklist.ts, src/utils/security.ts)    *)
(***************************************************************************)
\* file-blocklist.ts, used by file_serve
BLOCKED_FILE_PATHS ==
    << [source |-> <<"^","\\","/","e","t","c","\\","/","s","h","a","d","o","w","$">>, ignoreCase |-> FALSE],
       [source |-> <<"^","\\","/","e","t","c","\\","/","p","a","s","s","w","d","$">>, ignoreCase |-> FALSE],
       [source |-> <<"^","\\","/","e","t","c","\\","/","s","u","d","o","e","r","s">>, ignoreCase |-> FALSE],
       [source |-> <<"^","\\","/","e","t","c","\\","/","s","s","h","\\","/">>, ignoreCase |-> FALSE],
       [source |-> <<"\\","/","\\",".","s","s","h","\\","/">>, ignoreCase |-> FALSE],
       [source |-> <<"\\","/","\\",".","a","w","s","\\","/">>, ignoreCase |-> FALSE],
       [source |-> <<"\\","/","\\",".","g","n","u","p","g","\\","/">>, ignoreCase |-> FALSE],
       [source |-> <<"\\","/","\\",".","c","o","n","f","i","g","\\","/","g","c","l","o","u","d","\\","/">>, ignoreCase |-> FALSE],
       [source |-> <<"\\","/","\\",".","k","u","b","e","\\","/","c","o","n","f","i","g","$">>, ignoreCase |-> FALSE],
       [source |-> <<"\\","/","\\",".","n","p","m","r","c","$">>, ignoreCase |-> FALSE],
       [source |-> <<"\\","/","\\",".","n","e","t","r","c","$">>, ignoreCase |-> FALSE],
       [source |-> <<"\\","/","\\",".","e","n","v","$">>, ignoreCase |-> FALSE],
       [source |-> <<"\\","/","\\",".","e","n","v","\\",".">>, ignoreCase |-> FALSE],
       [source |-> <<"\\","/","c","r","e","d","e","n","t","i","a","l","s","\\",".","j","s","o","n","$">>, ignoreCase |-> FALSE],
       [source |-> <<"\\","/","s","e","r","v","i","c","e","[","_","-","]","?","a","c","c","o","u","n","t",".","*","\\",".","j","s","o","n","$">>, ignoreCase |-> TRUE],
       [source |-> <<"\\","/","t","o","k","e","n","\\",".","j","s","o","n","$">>, ignoreCase |-> FALSE],
       [source |-> <<"^","\\","/","p","r","o","c","\\","/">>, ignoreCase |-> FALSE],
       [source |-> <<"^","\\","/","s","y","s","\\","/">>, ignoreCase |-> FALSE],
       [source |-> <<"^","\\","/","d","e","v","\\","/">>, ignoreCase |-> FALSE] >>

\* security.ts, used by read_file
BLOCKED_PATHS ==
    << [source |-> <<"^","\\","/","e","t","c","\\","/","s","h","a","d","o","w","$">>, ignoreCase |-> FALSE],
       [source |-> <<"^","\\","/","e","t","c","\\","/","p","a","s","s","w","d","$">>, ignoreCase |-> FALSE],
       [source |-> <<"^","\\","/","e","t","c","\\","/","s","u","d","o","e","r","s">>, ignoreCase |-> FALSE],
       [source |-> <<"^","\\","/","e","t","c","\\","/","s","s","h","\\","/">>, ignoreCase |-> FALSE],
       [source |-> <<"\\","/","\\",".","s","s","h","\\","/">>, ignoreCase |-> FALSE],
       [source |-> <<"\\","/","\\",".","a","w","s","\\","/">>, ignoreCase |-> FALSE],
       [source |-> <<"\\","/","\\",".","g","n","u","p","g","\\","/">>, ignoreCase |-> FALSE],
       [source |-> <<"\\","/","\\",".","c","o","n","f","i","g","\\","/","g","c","l","o","u","d","\\","/">>, ignoreCase |-> FALSE],
       [source |-> <<"\\","/","\\",".","k","u","b","e","\\","/","c","o","n","f","i","g","$">>, ignoreCase |-> FALSE],
       [source |-> <<"\\","/","\\",".","n","p","m","r","c","$">>, ignoreCase |-> FALSE],
       [source |-> <<"\\","/","\\",".","n","e","t","r","c","$">>, ignoreCase |-> FALSE],
       [source |-> <<"\\","/","\\",".","e","n","v","$">>, ignoreCase |-> FALSE],
       [source |-> <<"\\","/","\\",".","e","n","v","\\",".">>, ignoreCase |-> FALSE],
       [source |-> <<"\\","/","c","r","e","d","e","n","t","i","a","l","s","\\",".","j","s","o","n","$">>, ignoreCase |-> FALSE],
       [source |-> <<"\\","/","s","e","r","v","i","c","e","[","_","-","]","?","a","c","c","o","u","n","t",".","*","\\",".","j","s","o","n","$">>, ignoreCase |-> TRUE],
       [source |-> <<"\\","/","t","o","k","e","n","\\",".","j","s","o","n","$">>, ignoreCase |-> FALSE] >>

\* the loop of both isBlockedPath functions
TestsAny(patterns, filePath) ==
    \E i \in DOMAIN patterns :
        \/ RegExpTest(patterns[i], normalize(filePath))
        \/ RegExpTest(patterns[i], resolve(filePath))

\* isBlockedPath of file-blocklist.ts
isBlockedPath(filePath) == TestsAny(BLOCKED_FILE_PATHS, filePath)

\* isBlockedPath of security.ts
readFileIsBlockedPath(filePath) == TestsAny(BLOCKED_PATHS, filePath)

(***************************************************************************)
(* matchesPattern, step by step (src/config/manager.ts)                    *)
(***************************************************************************)
\* the characters that /[.+?^${}()|[\]\\]/g escapes
EscapedChars_noDot ==
    {"+", "?", "^", "$", "{", "}", "(", ")", "|", "[", "]", "\\"}

EscapedChars ==
    {".", "+", "?", "^", "$", "{", "}", "(", ")", "|", "[", "]", "\\"}

\* pattern.replace(escapes, "\\$&").replace(/\*/g, ".*")
RECURSIVE regexPattern(_)
regexPattern(pattern) ==
    IF pattern = << >> THEN << >>
    ELSE (IF Head(pattern) \in EscapedChars THEN <<"\\", Head(pattern)>>
          ELSE IF Head(pattern) = "*" THEN <<".", "*">>
          ELSE <<Head(pattern)>>)
         \o regexPattern(Tail(pattern))

\* new RegExp(`^${regexPattern}$`, "i")
regex(pattern) ==
    [source |-> <<"^">> \o regexPattern(pattern) \o <<"$">>,
     ignoreCase |-> TRUE]

(***************************************************************************)
(* State and inputs                                                        *)
(***************************************************************************)
VARIABLES
    currentConfig,  \* manager.ts: the in-memory cache of the configuration
    configFile,     \* ~/.config/mcp-proxy/config.json
    call,           \* the operation performed last, with what it returned
    requestStore,   \* rate-limiter.ts: identifier -> timestamps recorded
    lastCleanup,    \* rate-limiter.ts: when cleanupOldEntries ran last
    now,            \* Date.now()
    admission,      \* what the last checkRateLimit returned
    files,          \* file-registry.ts: the index of registrations
    serveDir,       \* the ids whose copy is in the serve directory
    issued,         \* how many ids crypto.randomUUID() has handed out
    cleanupInterval,\* file-registry.ts: the sweep timer held, those active
    registerTask,   \* a register() call in flight
    removing,       \* the ids of the removeFile() calls awaiting unlink
    cleanupTask,    \* a cleanup() call in flight
    clearAllTask,   \* a clearAll() call in flight
    answer,         \* what the registry returned last
    server,         \* http-server.ts: whether this.server is set
    port,           \* http-server.ts: this.port
    listening,      \* the port the server listens on, 0 while it does not
    taken,          \* the ports other processes listen on
    serves,         \* the file_serve calls, from their server start on
    reply,          \* what the last request was answered with
    arrays,         \* manager.ts: the allowlist arrays, by reference
    cached,         \* manager.ts: the object currentConfig refers to
    writers,        \* the addDomainToAllowlist / addCommandToAllowlist
                    \* calls that can overlap
    process,        \* tunnel-manager.ts: this.process, 0 while it is null
    publicUrl,      \* tunnel-manager.ts: this.publicUrl, 0 while it is null
    restartCount,   \* tunnel-manager.ts: this.restartCount
    children,       \* the cloudflared subprocesses and their closures
    starts,         \* the start() calls
    killTimers,     \* the five second timers that stop() has set
    stops,          \* how often stopTunnel() has been called
    execs,          \* network-exec.ts: the spawnWithTimeout calls
    probe           \* the last call of a function without state

policyVars == <<currentConfig, configFile, call>>

limiterVars == <<requestStore, lastCleanup, admission>>

registryVars == <<files, serveDir, issued, cleanupInterval, registerTask,
                  removing, cleanupTask, clearAllTask, answer>>

serverVars == <<server, port, listening, taken, serves, reply>>

writerVars == <<arrays, cached, writers>>

tunnelVars == <<process, publicUrl, restartCount, children, starts,
                killTimers, stops>>

laterVars == <<tunnelVars, execs, probe>>

vars == <<policyVars, now, limiterVars, registryVars, serverVars,
          writerVars, laterVars>>

\* what the actions of one component leave alone
beyondPolicy == <<now, limiterVars, registryVars, serverVars, writerVars,
    laterVars>>

beyondLimiter == <<policyVars, registryVars, serverVars, writerVars,
    laterVars>>

beyondRegistry == <<policyVars, now, limiterVars, serverVars, writerVars,
    laterVars>>

beyondServer == <<policyVars, now, limiterVars, writerVars,
    laterVars>>

beyondWriters == <<now, limiterVars, registryVars, serverVars,
    laterVars>>

\* identifiers handed to the domain functions of the policy store
DomainInputs ==
    { <<"h","t","t","p",":","/","/","A",".","i","o",":","8","0","8","0","/","v","1">>,
      <<"h","t","t","p",":","/","/","1","0",".","0",".","0",".","1","/">> }

\* identifiers handed to the command functions of the policy store
CommandInputs ==
    { <<"/","u","s","r","/","b","i","n","/","C","U","R","L"," ","-","s">>,
      <<"/","b","i","n","/","r","m">> }

Approvals == {"none", "once", "always"}

\* proxy_fetch requests: a domain nobody has listed, a blocked one and a URL
\* of another protocol under every approval, and a request with a method
\* that does not exist
FetchInputs ==
    [url : { <<"h","t","t","p","s",":","/","/","a",".","i","o","/","p">>,
             <<"h","t","t","p","s",":","/","/","L","o","c","a","l","H","o","s","t",":","3","0","0","0","/">>,
             <<"f","t","p",":","/","/","a",".","i","o","/">> },
     method : { <<"g","e","t">> },
     approve : Approvals]
    \cup
    [url : { <<"h","t","t","p","s",":","/","/","a",".","i","o","/","p">> },
     method : { <<"T","R","A","C","E">> },
     approve : {"once", "always"}]

\* network_exec requests: four commands without arguments under every
\* approval, and one command with harmless and with dangerous arguments
\* under a standing approval
ExecInputs ==
    [command : { <<"c","u","r","l">>,
                 <<"w","g","e","t"," ","x","/","c","u","r","l">>,
                 <<"r","m"," ","x","/","c","u","r","l">>,
                 <<"c","u","r","l",";","l","s">> },
     args : { <<>> },
     approve : Approvals]
    \cup
    [command : { <<"c","u","r","l">> },
     args : { << <<"-","-","o","u","t","p","u","t">>,
                 <<"v","i","d","e","o",".","m","p","4">>,
                 <<"h","t","t","p","s",":","/","/","e","x","a","m","p","l","e",".","c","o","m","/","v">> >>,
              << <<"a">>, <<"b",";"," ","r","m"," ","-","r","f"," ","/">> >>,
              << <<"a","&","b">>, <<"$","H","O","M","E">> >>,
              << <<"-","s">>, <<"a","&","&","b">> >> },
     approve : {"always"}]

\* what the config file may hold when the server starts
SampleFiles ==
    { NoFile,
      InvalidFile,
      JsonFile(<< <<"*">> >>, << <<"b",".","i","o">> >>,
               << <<"r","*">> >>, <<>>, {"blockedCommands"}) }

\* the record of a call: the operation, the approve token it was given, the
\* status and error it returned, whether it called fetch() / spawn(), and
\* whether it changed an allowlist in memory
Call(op, approve, status, error, invoked, changed) ==
    [op |-> op, approve |-> approve, status |-> status, error |-> error,
     invoked |-> invoked, changed |-> changed]

\* a call of a policy-store function
StoreCall(op, status, error, changed) ==
    Call(op, "none", status, error, FALSE, changed)

Outcome(w) == IF Threw(w) THEN "threw" ELSE "ok"

\* the policy store of a server that has just started on a machine that
\* has no config file
PolicyIdle ==
    /\ currentConfig = NullConfig
    /\ configFile = NoFile
    /\ call = StoreCall("start", "ok", "none", FALSE)

\* the rate limiter when its module has just been loaded
LimiterIdle ==
    /\ requestStore = << >>
    /\ now = 0
    /\ lastCleanup = now
    /\ admission = [allowed |-> TRUE, remaining |-> DEFAULT_MAX_REQUESTS]

Idle == [pc |-> "idle"]

\* the file registry when it has just been constructed
RegistryIdle ==
    /\ files = << >>
    /\ serveDir = {}
    /\ issued = 0
    /\ cleanupInterval = Sweeps(FALSE, 0)
    /\ registerTask = Idle
    /\ removing = {}
    /\ cleanupTask = Idle
    /\ clearAllTask = Idle
    /\ answer = [op |-> "none"]

\* the file_serve calls that can overlap
Callers == {"first", "second"}

\* a file_serve call: where it is, whether it has called listen(), the port
\* it has got and the id of its registration
Serve(pc, binds, result, file) ==
    [pc |-> pc, binds |-> binds, port |-> result, file |-> file]

\* the process has ended with an exception thrown in a handler of the server
Crashed == \E caller \in Callers : serves[caller].pc = "thrown"

\* the HTTP file server when it has just been constructed
ServerStopped ==
    /\ server = FALSE
    /\ port = DEFAULT_PORT
    /\ listening = 0
    /\ serves = [caller \in Callers |-> Serve("idle", FALSE, 0, 0)]
    /\ reply = Reply(0, FALSE, FALSE, FALSE)

\* the approvals that can overlap
Writers == {"first", "second"}

\* no addDomainToAllowlist / addCommandToAllowlist call has begun
WritersIdle ==
    /\ arrays = << >>
    /\ cached = NoObject
    /\ writers = [w \in Writers |->
                    Writer("idle", "none", << >>, NoObject, NoFile)]

\* the callers of start(): file_serve calls start() when the tunnel is
\* not running, and two file_serve calls can overlap
Starters == {"first", "second"}

\* a start() call: where it is, whether it began while another start()
\* was under way, the subprocess it spawned and the URL it returned
Start(pc, joined, child, url) ==
    [pc |-> pc, joined |-> joined, child |-> child, url |-> url]

\* the supervisor after construction: STOPPED, nothing spawned
TunnelStopped ==
    /\ process = 0
    /\ publicUrl = 0
    /\ restartCount = 0
    /\ children = [k \in 1..MaxChildren |-> NoChild]
    /\ starts = [s \in Starters |-> Start("idle", FALSE, 0, 0)]
    /\ killTimers = 0
    /\ stops = 0

\* the network_exec calls that can overlap
Execs == {"first", "second", "third"}

\* no command has been spawned
ExecIdle == execs = [e \in Execs |-> NoExec]

\* no function without state has been called
ProbeIdle == probe = [op |-> "none"]

\* the components after the file server, before anything has run
LaterIdle == TunnelStopped /\ ExecIdle /\ ProbeIdle

\* everything but the policy store, before anything has run
OthersIdle ==
    /\ LimiterIdle
    /\ RegistryIdle
    /\ ServerStopped
    /\ taken = {}
    /\ WritersIdle
    /\ LaterIdle

Init ==
    /\ currentConfig = NullConfig
    /\ configFile \in SampleFiles
    /\ call = StoreCall("start", "ok", "none", FALSE)
    /\ OthersIdle

(***************************************************************************)
(* Operations                                                              *)
(***************************************************************************)
\* whether world w holds other allowlists in memory than the cache does now
\* (a cache not loaded yet holds none)
Changed(w) ==
    /\ ~currentConfig.null
    /\ \/ w.currentConfig.allowedDomains # currentConfig.allowedDomains
       \/ w.currentConfig.allowedCommands # currentConfig.allowedCommands

\* The outcomes of the file system calls an operation can meet in this
\* state: a read can fail on an existing file, the save inside loadConfig
\* happens when there is no file, and both only when nothing is cached;
\* ownSave tells whether the operation may save on its own account (an
\* operation whose load has thrown does not get as far as its own save).
Outcomes(ownSave) ==
    {io \in IO :
        /\ io.readFails => currentConfig.null /\ configFile.kind = "JSON"
        /\ ~io.loadWrite => currentConfig.null /\ configFile.kind = "ENOENT"
        /\ ~io.saveWrite => ownSave
        /\ io.loadWrite \/ io.saveWrite}

Becomes(w) ==
    /\ currentConfig' = w.currentConfig
    /\ configFile' = w.configFile

LoadConfig ==
    \E io \in IO :
        /\ io.saveWrite
        /\ io.readFails => configFile.kind = "JSON"
        /\ ~io.loadWrite => configFile.kind = "ENOENT"
        /\ \E w \in {loadConfig(configFile, io)} :
               /\ Becomes(w)
               /\ call' = StoreCall("loadConfig", Outcome(w), w.error,
                                   Changed(w))
               /\ UNCHANGED beyondPolicy

ResetConfig ==
    \E io \in IO :
        /\ ~io.readFails /\ io.loadWrite
        /\ \E w \in {resetConfig(currentConfig, configFile, io)} :
               /\ Becomes(w)
               /\ call' = StoreCall("resetConfig", Outcome(w), w.error,
                                   Changed(w))
               /\ UNCHANGED beyondPolicy

ClearConfigCache ==
    /\ currentConfig' = NullConfig
    /\ UNCHANGED <<configFile, beyondPolicy>>
    /\ call' = StoreCall("clearConfigCache", "ok", "none", FALSE)

IsDomainAllowed ==
    \E x \in DomainInputs, io \in Outcomes(FALSE) :
        \E r \in {isDomainAllowed(currentConfig, configFile, x, io)} :
            /\ Becomes(r.world)
            /\ call' = StoreCall("isDomainAllowed", r.status, r.world.error,
                             FALSE)
            /\ UNCHANGED beyondPolicy

IsCommandAllowed ==
    \E x \in CommandInputs, io \in Outcomes(FALSE) :
        \E r \in {isCommandAllowed(currentConfig, configFile, x, io)} :
            /\ Becomes(r.world)
            /\ call' = StoreCall("isCommandAllowed", r.status, r.world.error,
                             FALSE)
            /\ UNCHANGED beyondPolicy

AddDomainToAllowlist ==
    \E x \in DomainInputs, io \in Outcomes(TRUE) :
        \E w \in {addDomainToAllowlist(currentConfig, configFile, x, io)} :
            /\ Becomes(w)
            /\ call' = StoreCall("addDomainToAllowlist", Outcome(w),
                             w.error, Changed(w))
            /\ UNCHANGED beyondPolicy

AddCommandToAllowlist ==
    \E x \in CommandInputs, io \in Outcomes(TRUE) :
        \E w \in {addCommandToAllowlist(currentConfig, configFile, x, io)} :
            /\ Becomes(w)
            /\ call' = StoreCall("addCommandToAllowlist", Outcome(w),
                             w.error, Changed(w))
            /\ UNCHANGED beyondPolicy

RemoveDomainFromAllowlist ==
    \E x \in DomainInputs, io \in Outcomes(TRUE) :
        \E w \in {removeDomainFromAllowlist(currentConfig, configFile, x, io)} :
            /\ Becomes(w)
            /\ call' = StoreCall("removeDomainFromAllowlist", Outcome(w),
                             w.error, Changed(w))
            /\ UNCHANGED beyondPolicy

RemoveCommandFromAllowlist ==
    \E x \in CommandInputs, io \in Outcomes(TRUE) :
        \E w \in {removeCommandFromAllowlist(currentConfig, configFile, x, io)} :
            /\ Becomes(w)
            /\ call' = StoreCall("removeCommandFromAllowlist", Outcome(w),
                             w.error, Changed(w))
            /\ UNCHANGED beyondPolicy

ProxyFetch ==
    \E input \in FetchInputs, fetchOk \in BOOLEAN :
      \E io \in Outcomes(input.approve = "always") :
        \E r \in {proxyFetch(currentConfig, configFile, input, io, fetchOk)} :
            /\ Becomes(r.world)
            /\ call' = Call("proxyFetch", input.approve, r.status, r.error,
                            r.invoked, Changed(r.world))
            /\ UNCHANGED beyondPolicy

NetworkExec ==
    \E input \in ExecInputs, spawnOk \in BOOLEAN :
      \E io \in Outcomes(input.approve = "always") :
        \E r \in {networkExec(currentConfig, configFile, input, io, spawnOk)} :
            /\ Becomes(r.world)
            /\ call' = Call("networkExec", input.approve, r.status, r.error,
                            r.invoked, Changed(r.world))
            /\ UNCHANGED beyondPolicy

Next ==
    \/ LoadConfig
    \/ ResetConfig
    \/ ClearConfigCache
    \/ IsDomainAllowed
    \/ IsCommandAllowed
    \/ AddDomainToAllowlist
    \/ AddCommandToAllowlist
    \/ RemoveDomainFromAllowlist
    \/ RemoveCommandFromAllowlist
    \/ ProxyFetch
    \/ NetworkExec

Spec == Init /\ [][Next]_vars


(***************************************************************************)
(* Rate limiter: state machine                                             *)
(***************************************************************************)
\* identifiers the limiter is asked about
Identifiers == {"fetch:a.io", "exec:curl"}

\* the default configuration and a custom one
RateLimitConfigs ==
    { DEFAULT_RATE_LIMIT,
      [maxRequests |-> 1, windowMs |-> 180000] }

\* the clock stops at MaxNow; a record holds at most MaxRecorded timestamps
\* when a call is made
MaxNow == 420000

MaxRecorded == 2

Delays == {90000, 150000}

Recorded(identifier) ==
    IF identifier \in DOMAIN requestStore
    THEN Len(requestStore[identifier]) ELSE 0

\* time passes
Advance ==
    \E d \in Delays :
        /\ now + d <= MaxNow
        /\ now' = now + d
        /\ UNCHANGED <<policyVars, limiterVars, registryVars, serverVars,
                       writerVars, laterVars>>

CheckRateLimit ==
    \E identifier \in Identifiers, config \in RateLimitConfigs :
        /\ Recorded(identifier) < MaxRecorded
        /\ \E r \in {checkRateLimit(requestStore, lastCleanup, identifier,
                                    config, now)} :
              /\ requestStore' = r.limiter.requestStore
              /\ lastCleanup' = r.limiter.lastCleanup
              /\ admission' = r.result
        /\ UNCHANGED <<now, beyondLimiter>>

ClearRateLimit ==
    \E identifier \in Identifiers :
        /\ requestStore' = clearRateLimit(requestStore, identifier)
        /\ UNCHANGED <<lastCleanup, now, admission, beyondLimiter>>

ClearAllRateLimits ==
    /\ requestStore' = << >>
    /\ UNCHANGED <<lastCleanup, now, admission, beyondLimiter>>

InitLimiter == PolicyIdle /\ OthersIdle

NextLimiter ==
    \/ Advance
    \/ CheckRateLimit
    \/ ClearRateLimit
    \/ ClearAllRateLimits

SpecLimiter == InitLimiter /\ [][NextLimiter]_vars

(***************************************************************************)
(* File registry: state machine.  An async method runs up to its next      *)
(* await in one step; what it awaits (stat, copyFile, unlink) completes in *)
(* a later step, and other calls run in between.                           *)
(***************************************************************************)
\* at most MaxFiles files are registered
MaxFiles == 2

\* at most MaxSweepTimers interval timers are active
MaxSweepTimers == 2

\* options.expiryMinutes of the registrations: not given, and three minutes
ExpiryOptions == { << >>, <<3>> }

\* file_serve: initializeFileRegistry(), which sets the sweep timer, then
\* register() up to its await of stat
Register ==
    \E expiryMinutes \in ExpiryOptions :
        /\ registerTask = Idle
        /\ ~Crashed
        /\ issued < MaxFiles
        /\ cleanupInterval.active < MaxSweepTimers
        /\ cleanupInterval' = initialize(cleanupInterval)
        /\ registerTask' = [pc |-> "stat", expiryMinutes |-> expiryMinutes,
                            id |-> 0]
        /\ UNCHANGED <<files, serveDir, issued, removing, cleanupTask,
                       clearAllTask, answer, beyondRegistry>>

\* input.expiry_minutes as file_serve hands it on: not given, zero, three
\* minutes, and minus three minutes
ExpiryMinutes == { << >>, <<0>>, <<3>>, <<-3>> }

\* file_serve: the same, with the expiry_minutes of the request
FileServeRegister ==
    \E expiryMinutes \in ExpiryMinutes :
        /\ registerTask = Idle
        /\ ~Crashed
        /\ issued < MaxFiles
        /\ cleanupInterval.active < MaxSweepTimers
        /\ cleanupInterval' = initialize(cleanupInterval)
        /\ registerTask' = [pc |-> "stat", expiryMinutes |-> expiryMinutes,
                            id |-> 0]
        /\ UNCHANGED <<files, serveDir, issued, removing, cleanupTask,
                       clearAllTask, answer, beyondRegistry>>

\* stat completes: register() throws, or draws an id and awaits copyFile
RegisterStat ==
    \E isFile \in BOOLEAN :
        /\ registerTask.pc = "stat"
        /\ ~Crashed
        /\ IF isFile
           THEN /\ issued' = issued + 1
                /\ registerTask' = [registerTask EXCEPT !.pc = "copy",
                                                        !.id = issued + 1]
                /\ UNCHANGED answer
           ELSE /\ registerTask' = Idle
                /\ answer' = [op |-> "register", error |-> "stat"]
                /\ UNCHANGED issued
        /\ UNCHANGED <<files, serveDir, cleanupInterval, removing,
                       cleanupTask, clearAllTask, beyondRegistry>>

\* copyFile completes: register() throws, or enters the registration
RegisterCopy ==
    \E copied \in BOOLEAN :
        /\ registerTask.pc = "copy"
        /\ ~Crashed
        /\ registerTask' = Idle
        /\ IF copied
           THEN \E registration \in
                     {[id |-> registerTask.id,
                       createdAt |-> now,
                       expiresAt |-> expiresAt(registerTask.expiryMinutes,
                                               now)]} :
                   /\ serveDir' = serveDir \cup {registerTask.id}
                   /\ files' = Append(files, registration)
                   /\ answer' = [op |-> "register",
                                 registration |-> registration]
           ELSE /\ answer' = [op |-> "register", error |-> "copyFile"]
                /\ UNCHANGED <<files, serveDir>>
        /\ UNCHANGED <<issued, cleanupInterval, removing, cleanupTask,
                       clearAllTask, beyondRegistry>>

\* get(id), for the ids handed out and one that never was
Get ==
    \E id \in 1..(issued + 1) :
        \E r \in {get(files, id, now)} :
            /\ answer' = [op |-> "get", id |-> id,
                          registration |-> r.registration]
            /\ removing' = IF r.removes THEN removing \cup {id} ELSE removing
            /\ UNCHANGED <<files, serveDir, issued, cleanupInterval,
                           registerTask, cleanupTask, clearAllTask,
                           beyondRegistry>>

\* removeFile(id) called by file_serve_cleanup, up to its await of unlink
RemoveFile ==
    \E id \in 1..(issued + 1) :
        /\ IF Has(files, id)
           THEN /\ removing' = removing \cup {id}
                /\ UNCHANGED answer
           ELSE /\ answer' = [op |-> "removeFile", id |-> id,
                              removed |-> FALSE]
                /\ UNCHANGED removing
        /\ UNCHANGED <<files, serveDir, issued, cleanupInterval,
                       registerTask, cleanupTask, clearAllTask,
                       beyondRegistry>>

\* what unlink can do to the copy of id: remove it, or fail (with ENOENT
\* when there is no copy, with another error when there is one)
UnlinkOutcomes(id) == IF id \in serveDir THEN BOOLEAN ELSE {FALSE}

\* the ids whose unlink a removeFile() is awaiting
Unlinking ==
    removing
    \cup (IF cleanupTask.pc = "unlink" THEN {cleanupTask.id} ELSE {})
    \cup (IF clearAllTask.pc = "unlink" THEN {clearAllTask.id} ELSE {})

\* a thread of the pool carries out an awaited unlink: the copy is gone
\* from the serve directory, and removeFile() goes on only when the event
\* loop comes to the completion
UnlinkOnDisk ==
    \E id \in Unlinking \cap serveDir :
        /\ serveDir' = serveDir \ {id}
        /\ UNCHANGED <<files, issued, cleanupInterval, registerTask,
                       removing, cleanupTask, clearAllTask, answer,
                       beyondRegistry>>

\* unlink completes for a removeFile() called by get or file_serve_cleanup:
\* the error, if any, is swallowed and the registration deleted
Unlinked ==
    \E id \in removing :
      \E succeeds \in UnlinkOutcomes(id) :
        /\ serveDir' = unlink(serveDir, id, succeeds)
        /\ files' = Delete(files, id)
        /\ removing' = removing \ {id}
        /\ answer' = [op |-> "removeFile", id |-> id, removed |-> TRUE]
        /\ UNCHANGED <<issued, cleanupInterval, registerTask, cleanupTask,
                       clearAllTask, beyondRegistry>>

\* the sweep timer fires: cleanup() up to its first await
Cleanup ==
    /\ cleanupInterval.active > 0
    /\ cleanupTask = Idle
    /\ \E first \in {FirstExpired(files, now)} :
          IF first = Absent
          THEN /\ answer' = [op |-> "cleanup", cleaned |-> 0]
               /\ UNCHANGED cleanupTask
          ELSE /\ cleanupTask' = [pc |-> "unlink", time |-> now,
                                  id |-> first.id, cleaned |-> 0]
               /\ UNCHANGED answer
    /\ UNCHANGED <<files, serveDir, issued, cleanupInterval, registerTask,
                   removing, clearAllTask, beyondRegistry>>

\* unlink completes for the removeFile() of cleanup(): the registration is
\* deleted and the loop goes on to its next await or to its end
CleanupUnlinked ==
    /\ cleanupTask.pc = "unlink"
    /\ \E succeeds \in UnlinkOutcomes(cleanupTask.id) :
        /\ serveDir' = unlink(serveDir, cleanupTask.id, succeeds)
        /\ files' = Delete(files, cleanupTask.id)
        /\ \E next \in {FirstExpired(Delete(files, cleanupTask.id),
                                     cleanupTask.time)} :
              IF next = Absent
              THEN /\ cleanupTask' = Idle
                   /\ answer' = [op |-> "cleanup",
                                 cleaned |-> cleanupTask.cleaned + 1]
              ELSE /\ cleanupTask' = [cleanupTask EXCEPT
                                        !.id = next.id, !.cleaned = @ + 1]
                   /\ UNCHANGED answer
        /\ UNCHANGED <<issued, cleanupInterval, registerTask, removing,
                       clearAllTask, beyondRegistry>>

\* clearAll() up to its first await: count is the size of the index now
ClearAll ==
    /\ clearAllTask = Idle
    /\ IF files = << >>
       THEN /\ answer' = [op |-> "clearAll", count |-> 0, removed |-> 0,
                          left |-> 0]
            /\ UNCHANGED clearAllTask
       ELSE /\ clearAllTask' = [pc |-> "unlink", id |-> files[1].id,
                                count |-> Len(files), removed |-> 0]
            /\ UNCHANGED answer
    /\ UNCHANGED <<files, serveDir, issued, cleanupInterval, registerTask,
                   removing, cleanupTask, beyondRegistry>>

\* unlink completes for the removeFile() of clearAll(): the registration is
\* deleted and the loop goes on with the key that follows in the index as
\* it is now, or returns count.  removed counts the registrations this call
\* has deleted; left is the size of the index when it returns
ClearAllUnlinked ==
    /\ clearAllTask.pc = "unlink"
    /\ \E succeeds \in UnlinkOutcomes(clearAllTask.id) :
        /\ serveDir' = unlink(serveDir, clearAllTask.id, succeeds)
        /\ files' = Delete(files, clearAllTask.id)
        /\ \E removed \in {clearAllTask.removed
                           + (IF Has(files, clearAllTask.id) THEN 1 ELSE 0)} :
              IF files' = << >>
              THEN /\ clearAllTask' = Idle
                   /\ answer' = [op |-> "clearAll",
                                 count |-> clearAllTask.count,
                                 removed |-> removed, left |-> Len(files')]
              ELSE /\ clearAllTask' = [clearAllTask EXCEPT
                                         !.id = files'[1].id,
                                         !.removed = removed]
                   /\ UNCHANGED answer
        /\ UNCHANGED <<issued, cleanupInterval, registerTask, removing,
                       cleanupTask, beyondRegistry>>

\* FileRegistry.shutdown(), called by shutdownFileServer()
Shutdown ==
    /\ cleanupInterval' = shutdown(cleanupInterval)
    /\ UNCHANGED <<files, serveDir, issued, registerTask, removing,
                   cleanupTask, clearAllTask, answer, beyondRegistry>>

InitRegistry == PolicyIdle /\ OthersIdle

NextRegistry ==
    \/ Advance
    \/ Register
    \/ RegisterStat
    \/ RegisterCopy
    \/ Get
    \/ RemoveFile
    \/ UnlinkOnDisk
    \/ Unlinked
    \/ Cleanup
    \/ CleanupUnlinked
    \/ ClearAll
    \/ ClearAllUnlinked

\* register() alone, on every expiry_minutes that file_serve accepts
NextRegister ==
    \/ FileServeRegister
    \/ RegisterStat
    \/ RegisterCopy
    \/ Advance

\* the sweep timer from initialize() to shutdown()
NextSweep ==
    \/ Register
    \/ RegisterStat
    \/ RegisterCopy
    \/ Advance
    \/ Cleanup
    \/ CleanupUnlinked
    \/ Shutdown

SpecSweep == InitRegistry /\ [][NextSweep]_vars

SpecRegister == InitRegistry /\ [][NextRegister]_vars

SpecRegistry == InitRegistry /\ [][NextRegistry]_vars

\* The sweep timer keeps firing and the file-system calls awaited complete.
\* The model lets one cleanup() run at a time.
RegistryFairness ==
    /\ WF_vars(Cleanup)
    /\ WF_vars(CleanupUnlinked)
    /\ WF_vars(Unlinked)
    /\ WF_vars(ClearAllUnlinked)
    /\ WF_vars(RegisterStat)
    /\ WF_vars(RegisterCopy)

SpecRegistryFair == InitRegistry /\ [][NextRegistry]_vars /\ RegistryFairness

(***************************************************************************)
(* HTTP file server: state machine.  start() runs up to listen() in one    *)
(* step; the "listening" or "error" event of the server comes in a later   *)
(* step, and other file_serve calls run in between.                        *)
(***************************************************************************)
\* the port numbers from DEFAULT_PORT up to the highest one listen() takes
\* (65535, validatePort of node:net), scaled down to PortsTried numbers
PortsTried == 3

Ports == DEFAULT_PORT..(DEFAULT_PORT + PortsTried - 1)

Methods == {"GET", "HEAD", "OPTIONS", "POST"}

Slash == <<"/">>

Prefix == <<"/", "f", "i", "l", "e", "s", "/">>

\* req.url of the requests: the url of a file with and without the /files
\* prefix, below other directories, followed by a query or a dot segment,
\* without extension, with two extensions, of a file never registered, in
\* upper case, and targets that name no file
Targets ==
    { Prefix \o Uuid(1) \o <<".", "t", "x", "t">>,
      Slash \o Uuid(1) \o <<".", "t", "x", "t">>,
      <<"/", "a", "/", "b", "/">> \o Uuid(2) \o <<".", "t", "x", "t">>,
      Prefix \o Uuid(1) \o <<".", "t", "x", "t", "?", "d">>,
      Prefix \o Uuid(1) \o <<".", "t", "x", "t", "/", ".">>,
      Prefix \o Uuid(1),
      Prefix \o Uuid(1) \o <<".", "t", "a", "r", ".", "g", "z">>,
      Prefix \o Uuid(9) \o <<".", "t", "x", "t">>,
      Prefix \o ToUpper(Uuid(1)) \o <<".", "t", "x", "t">>,
      Prefix,
      Slash,
      << >>,
      <<"/", "/">>,
      <<"/", "/", "h", "/">> \o Uuid(1) \o <<".", "t", "x", "t">> }

\* an "error" or "listening" event of the server is still to come
Binding ==
    /\ server
    /\ listening = 0
    /\ \E caller \in Callers : serves[caller].pc = "binding"

\* file_serve when its registry.register() has returned the registration:
\* startHttpServer() when the server is not running, which runs start() up
\* to listen(); getPort() when it is.
\* (start() itself answers this.port as getPort() does when this.server is
\* set.)
FileServe ==
    \E caller \in Callers :
        /\ serves[caller].pc = "idle"
        /\ ~Crashed
        /\ answer.op = "register"
        /\ "registration" \in DOMAIN answer
        /\ \A other \in Callers :
               serves[other].file # answer.registration.id
        /\ IF ~server
           THEN /\ port' = DEFAULT_PORT
                /\ server' = TRUE
                /\ serves' = [serves EXCEPT ![caller] =
                                  Serve("binding", TRUE, 0,
                                        answer.registration.id)]
           ELSE /\ serves' = [serves EXCEPT ![caller] =
                                  Serve("done", FALSE, port,
                                        answer.registration.id)]
                /\ UNCHANGED <<server, port>>
        /\ UNCHANGED <<listening, taken, reply, registryVars, beyondServer>>

\* the "error" event with EADDRINUSE: the next port is tried
AddrInUse ==
    /\ Binding
    /\ port \in taken
    /\ port + 1 \in Ports
    /\ port' = port + 1
    /\ UNCHANGED <<server, listening, taken, serves, reply, registryVars,
                   beyondServer>>

\* the "error" event with EADDRINUSE on the highest port: this.port++ and
\* listen() throws ERR_SOCKET_BAD_PORT inside the event handler, where
\* nothing catches it; the promise of start() is never settled and the
\* process ends with the uncaught exception
BadPort ==
    /\ Binding
    /\ port \in taken
    /\ port + 1 \notin Ports
    /\ port' = port + 1
    /\ serves' = [caller \in Callers |->
                    IF serves[caller].pc = "binding"
                    THEN Serve("thrown", TRUE, 0, serves[caller].file)
                    ELSE serves[caller]]
    /\ UNCHANGED <<server, listening, taken, reply, registryVars,
                   beyondServer>>

\* the "error" event with another code: start() rejects
ListenError ==
    /\ Binding
    /\ serves' = [caller \in Callers |->
                    IF serves[caller].pc = "binding"
                    THEN Serve("failed", TRUE, 0, serves[caller].file)
                    ELSE serves[caller]]
    /\ UNCHANGED <<server, port, listening, taken, reply, registryVars,
                   beyondServer>>

\* the "listening" event: start() resolves with this.port
Listening ==
    /\ Binding
    /\ port \notin taken
    /\ listening' = port
    /\ serves' = [caller \in Callers |->
                    IF serves[caller].pc = "binding"
                    THEN Serve("done", TRUE, port, serves[caller].file)
                    ELSE serves[caller]]
    /\ UNCHANGED <<server, port, taken, reply, registryVars, beyondServer>>

\* a request arrives at the listening server
HandleRequest ==
    \E method \in Methods, url \in Targets :
        /\ listening # 0
        /\ reply' = handleRequest(method, url, files, now)
        /\ removing' = IF reply'.removes
                       THEN removing \cup {RegistryId(Match(
                                pathParts(RequestURL(url).path)[
                                    Len(pathParts(RequestURL(url).path))]))}
                       ELSE removing
        /\ UNCHANGED <<server, port, listening, taken, serves, files,
                       serveDir, issued, cleanupInterval, registerTask,
                       cleanupTask, clearAllTask, answer, beyondServer>>

InitServer ==
    /\ PolicyIdle /\ LimiterIdle /\ RegistryIdle /\ ServerStopped
    /\ WritersIdle
    /\ LaterIdle
    /\ taken \in SUBSET Ports

NextServer ==
    \/ FileServe
    \/ AddrInUse
    \/ BadPort
    \/ ListenError
    \/ Listening
    \/ HandleRequest
    \/ Register
    \/ RegisterStat
    \/ RegisterCopy

SpecServer == InitServer /\ [][NextServer]_vars

(***************************************************************************)
(* Policy store: overlapping approvals.  A call runs up to its next await  *)
(* of the file system in one step (readFile, mkdir and writeFile, which    *)
(* succeed here; their failures are the subject of Outcomes); the calls    *)
(* of other requests run in between.  currentConfig is the config that     *)
(* the cached object stands for.                                           *)
(***************************************************************************)
\* the arguments of the overlapping calls: each call names a domain or a
\* command of its own, none of them blocked
WriterInputs ==
    [first  |-> { [kind |-> "domain",
                   value |-> <<"h","t","t","p","s",":","/","/","a",".","i","o","/","p">>],
                  [kind |-> "command",
                   value |-> <<"c","u","r","l"," ","-","s">>] },
     second |-> { [kind |-> "domain",
                   value |-> <<"b",".","i","o">>],
                  [kind |-> "command",
                   value |-> <<"/","u","s","r","/","b","i","n","/","w","g","e","t">>] }]

\* the cache and the heap become what a step has made of them
Shares(object, heap) ==
    /\ cached' = object
    /\ arrays' = heap
    /\ currentConfig' = View(object, heap)

\* addDomainToAllowlist / addCommandToAllowlist begins: getConfig() copies
\* the cached object, or awaits readFile in loadConfig()
AddToAllowlist ==
    \E w \in Writers :
      \E input \in WriterInputs[w] :
        /\ writers[w].pc = "idle"
        /\ \E writer \in {Writer("readFile", input.kind, input.value,
                                 NoObject, NoFile)} :
              IF cached = NoObject
              THEN /\ writers' = [writers EXCEPT ![w] = writer]
                   /\ UNCHANGED <<arrays, cached, currentConfig>>
              ELSE \E r \in {Resume(writer, cached, arrays)} :
                      /\ writers' = [writers EXCEPT ![w] = r.writer]
                      /\ Shares(cached, r.arrays)
        /\ UNCHANGED <<configFile, call, beyondWriters>>

\* readFile completes.  With a file, loadConfig() caches the parsed config
\* and the call goes on; without one it caches the defaults and awaits
\* ensureConfigDir() in saveConfig(currentConfig)
ReadFile ==
    \E w \in Writers :
        /\ writers[w].pc = "readFile"
        /\ IF configFile.kind = "ENOENT"
           THEN \E a \in {Allocate(arrays, createDefaultConfig)} :
                   /\ writers' = [writers EXCEPT ![w] =
                                     [@ EXCEPT !.pc = "loadMkdir",
                                               !.config = a.object]]
                   /\ Shares(a.object, a.arrays)
           ELSE \E a \in {Allocate(arrays,
                            loadConfig(configFile,
                                       [readFails |-> FALSE,
                                        loadWrite |-> TRUE,
                                        saveWrite |-> TRUE]).currentConfig)} :
                  \E r \in {Resume(writers[w], a.object, a.arrays)} :
                      /\ writers' = [writers EXCEPT ![w] = r.writer]
                      /\ Shares(a.object, r.arrays)
        /\ UNCHANGED <<configFile, call, beyondWriters>>

\* ensureConfigDir() completes in a saveConfig(): JSON.stringify(config),
\* then the await of writeFile
Stringified(w, before, after) ==
    /\ writers[w].pc = before
    /\ writers' = [writers EXCEPT ![w] =
                      [@ EXCEPT !.pc = after,
                                !.data = Stringify(View(writers[w].config,
                                                         arrays))]]
    /\ UNCHANGED <<arrays, cached, policyVars, beyondWriters>>

LoadMkdir == \E w \in Writers : Stringified(w, "loadMkdir", "loadWrite")

\* writeFile completes in the saveConfig() of loadConfig(): the cache
\* becomes a copy of the config saved, loadConfig() returns a copy of it
\* and the call goes on
LoadWrite ==
    \E w \in Writers :
        /\ writers[w].pc = "loadWrite"
        /\ configFile' = writers[w].data
        /\ \E r \in {Resume(writers[w], writers[w].config, arrays)} :
              /\ writers' = [writers EXCEPT ![w] = r.writer]
              /\ Shares(writers[w].config, r.arrays)
        /\ UNCHANGED <<call, beyondWriters>>

Mkdir == \E w \in Writers : Stringified(w, "mkdir", "writeFile")

\* writeFile completes in the saveConfig() of the call: the cache becomes
\* a copy of the config saved and the call returns
WriteFile ==
    \E w \in Writers :
        /\ writers[w].pc = "writeFile"
        /\ configFile' = writers[w].data
        /\ writers' = [writers EXCEPT ![w] = [@ EXCEPT !.pc = "done"]]
        /\ Shares(writers[w].config, arrays)
        /\ UNCHANGED <<call, beyondWriters>>

InitWriters ==
    /\ currentConfig = NullConfig
    /\ configFile \in {NoFile, Stringify(createDefaultConfig)}
    /\ call = StoreCall("start", "ok", "none", FALSE)
    /\ OthersIdle

NextWriters ==
    \/ AddToAllowlist
    \/ ReadFile
    \/ LoadMkdir
    \/ LoadWrite
    \/ Mkdir
    \/ WriteFile

SpecWriters == InitWriters /\ [][NextWriters]_vars
(***************************************************************************)
(* Tunnel supervisor: operations and handlers                              *)
(***************************************************************************)
beyondTunnel == <<policyVars, now, limiterVars, registryVars, serverVars,
                  writerVars, execs, probe>>

\* how often stopTunnel() is called in a behaviour
MaxStops == 1

\* how many five second timers of stop() are pending at a time
MaxKillTimers == 2

\* the promise of startTunnel() for subprocess k settles: the start()
\* calls that await it continue
Settle(calls, k, pc, url) ==
    [s \in Starters |->
        IF calls[s].pc = "starting" /\ calls[s].child = k
        THEN Start(pc, calls[s].joined, k, url)
        ELSE calls[s]]

\* stop(), as far as the subprocesses go: SIGTERM to this.process
Stopped(kids) ==
    IF process = 0 THEN {kids}
    ELSE { [kids EXCEPT ![process].state = state] :
               state \in Sigterm(kids[process].state) }

\* start(): the guard, then the await of isCloudflaredInstalled()
StartCall ==
    \E s \in Starters :
        /\ starts[s].pc = "idle"
        /\ starts' = [starts EXCEPT ![s] =
               The({ IF isRunning(process, publicUrl)
                     THEN Start("done", joined, 0, publicUrl)
                     ELSE Start("which", joined, 0, 0) :
                     joined \in {\E o \in Starters \ {s} :
                                   starts[o].pc \in {"which", "starting"}} })]
        /\ UNCHANGED <<process, publicUrl, restartCount, children,
                       killTimers, stops,
                       beyondTunnel>>

\* start() after the await: it throws, or startTunnel() spawns cloudflared
\* and assigns this.process
Installed ==
    \E s \in Starters, installed \in BOOLEAN :
        /\ starts[s].pc = "which"
        /\ IF installed
           THEN /\ NextChild(children) # 0
                /\ process' = NextChild(children)
                /\ children' = [children EXCEPT ![NextChild(children)] =
                                   Child("alive", FALSE, TRUE, FALSE)]
                /\ starts' = [starts EXCEPT ![s] =
                       Start("starting", @.joined, NextChild(children), 0)]
           ELSE /\ starts' = [starts EXCEPT ![s] =
                       Start("failed", @.joined, 0, 0)]
                /\ UNCHANGED <<process, children>>
        /\ UNCHANGED <<publicUrl, restartCount, killTimers, stops,
                       beyondTunnel>>

\* the stderr data handler of subprocess k sees the tunnel URL; the URL of
\* subprocess k is written k
Data ==
    \E k \in DOMAIN children :
        /\ Live(children[k])
        /\ ~children[k].resolved
        /\ children' = [children EXCEPT ![k].resolved = TRUE]
        /\ publicUrl' = k
        /\ starts' = Settle(starts, k, "done", k)
        /\ UNCHANGED <<process, restartCount, killTimers, stops,
                       beyondTunnel>>

\* the close handler of subprocess k
Close ==
    \E k \in DOMAIN children :
        /\ Live(children[k])
        /\ publicUrl' = 0
        /\ IF ~children[k].resolved
           THEN /\ process' = 0
                /\ children' = [children EXCEPT ![k] = Closed(@)]
                /\ starts' = Settle(starts, k, "failed", 0)
                /\ UNCHANGED restartCount
           ELSE IF publicUrl # 0 /\ restartCount < maxRestarts
           THEN /\ NextChild(children) # 0
                /\ restartCount' = restartCount + 1
                /\ process' = NextChild(children)
                /\ children' = [children EXCEPT
                       ![k] = Closed(@),
                       ![NextChild(children)] =
                           Child("alive", FALSE, TRUE, FALSE)]
                /\ UNCHANGED starts
           ELSE /\ process' = 0
                /\ children' = [children EXCEPT ![k] = Closed(@)]
                /\ UNCHANGED <<restartCount, starts>>
        /\ UNCHANGED <<killTimers, stops,
                       beyondTunnel>>

\* the thirty second timer of subprocess k fires
Timeout ==
    \E k \in DOMAIN children :
        /\ children[k].timer
        /\ IF children[k].resolved
           THEN /\ children' = [children EXCEPT ![k] =
                       IF Live(@) THEN [@ EXCEPT !.timer = FALSE]
                       ELSE NoChild]
                /\ UNCHANGED <<process, publicUrl, starts, killTimers>>
           ELSE /\ process # 0 => killTimers < MaxKillTimers
                /\ \E kids \in Stopped(children) :
                       children' = [kids EXCEPT ![k] =
                           IF Live(@)
                           THEN [@ EXCEPT !.timer = FALSE, !.timedOut = TRUE]
                           ELSE NoChild]
                /\ killTimers' = IF process = 0 THEN killTimers
                                 ELSE killTimers + 1
                /\ process' = 0
                /\ publicUrl' = 0
                /\ starts' = Settle(starts, k, "failed", 0)
        /\ UNCHANGED <<restartCount, stops,
                       beyondTunnel>>

\* stopTunnel(): stop() on the singleton
StopTunnel ==
    /\ stops < MaxStops
    /\ process # 0 => killTimers < MaxKillTimers
    /\ stops' = stops + 1
    /\ children' \in Stopped(children)
    /\ killTimers' = IF process = 0 THEN killTimers ELSE killTimers + 1
    /\ process' = 0
    /\ publicUrl' = 0
    /\ UNCHANGED <<restartCount, starts,
                       beyondTunnel>>

\* a five second timer of stop() fires
KillTimer ==
    /\ killTimers > 0
    /\ killTimers' = killTimers - 1
    /\ children' = IF process # 0 /\ ~Killed(children[process])
                   THEN [children EXCEPT ![process].state = Sigkill(@)]
                   ELSE children
    /\ UNCHANGED <<process, publicUrl, restartCount, starts, stops,
                       beyondTunnel>>

InitTunnel == PolicyIdle /\ OthersIdle

NextTunnel ==
    \/ StartCall
    \/ Installed
    \/ Data
    \/ Close
    \/ Timeout
    \/ StopTunnel
    \/ KillTimer

SpecTunnel == InitTunnel /\ [][NextTunnel]_vars

(***************************************************************************)
(* spawnWithTimeout: the command and its timers                            *)
(***************************************************************************)
beyondExec == <<policyVars, now, limiterVars, registryVars, serverVars,
                writerVars, tunnelVars, probe>>

\* spawn(command, args) and setTimeout(..., options.timeout); a command
\* that cannot be spawned makes no process
ExecSpawn ==
    \E e \in Execs, found \in BOOLEAN :
        /\ execs[e].state = "none"
        /\ execs' = [execs EXCEPT ![e] =
               Exec(IF found THEN "alive" ELSE "failed",
                    FALSE, TRUE, FALSE, "pending")]
        /\ UNCHANGED beyondExec

\* child.on("error"): clearTimeout and reject(error)
ExecError ==
    \E e \in Execs :
        /\ execs[e].state = "failed"
        /\ execs' = [execs EXCEPT ![e] =
               Exec("closed", @.killed, FALSE, @.grace, "error")]
        /\ UNCHANGED beyondExec

\* the timeout timer fires on the running command: killed = true, SIGTERM,
\* and the grace timer
ExecTimeout ==
    \E e \in Execs :
        /\ execs[e].timeoutId
        /\ Live(execs[e])
        /\ \E state \in Sigterm(execs[e].state) :
               execs' = [execs EXCEPT ![e] =
                   Exec(state, TRUE, FALSE, TRUE, @.settled)]
        /\ UNCHANGED beyondExec

\* the grace timer fires: SIGKILL unless child.killed
ExecGrace ==
    \E e \in Execs :
        /\ execs[e].grace
        /\ execs' = [execs EXCEPT ![e] =
               Exec(IF Killed(@) THEN @.state ELSE Sigkill(@.state),
                    @.killed, @.timeoutId, FALSE, @.settled)]
        /\ UNCHANGED beyondExec

\* child.on("close"): clearTimeout, then reject when killed is set and
\* resolve otherwise
ExecClose ==
    \E e \in Execs :
        /\ Live(execs[e])
        /\ execs' = [execs EXCEPT ![e] =
               Exec("closed", @.killed, FALSE, @.grace,
                    IF @.killed THEN "timed out" ELSE "success")]
        /\ UNCHANGED beyondExec

InitExec == PolicyIdle /\ OthersIdle

NextExec ==
    \/ ExecSpawn
    \/ ExecError
    \/ ExecTimeout
    \/ ExecGrace
    \/ ExecClose

SpecExec == InitExec /\ [][NextExec]_vars

\* What the scheduling guarantees: an event that is due is delivered, a
\* timer that is set fires, and a process that a fatal signal has reached
\* exits and closes its pipes.  Nothing makes a command exit on its own.
ExecFairness ==
    /\ WF_vars(ExecError)
    /\ WF_vars(ExecTimeout)
    /\ WF_vars(ExecGrace)
    /\ \A e \in Execs :
           WF_vars(ExecClose /\ execs[e].state = "dying"
                             /\ execs'[e].state = "closed")

SpecExecFair == SpecExec /\ ExecFairness

(***************************************************************************)
(* Functions without state: each behaviour calls one of them once         *)
(***************************************************************************)
beyondProbe == <<policyVars, now, limiterVars, registryVars, serverVars,
                 writerVars, tunnelVars, execs>>

\* the longest value and the longest pattern that are enumerated
MaxLen == 3

\* all strings over an alphabet, up to a length
Strings(alphabet, n) == UNION {[1..k -> alphabet] : k \in 0..n}

ValueChars == {"a", "B", ".", "\n"}

PatternChars == {"a", "b", ".", "*", "+"}

\* values with patterns as they occur in the blocklists and allowlists
MatchExamples ==
    { <<<<"1","7","2",".","1","6",".","0",".","5">>, <<"1","7","2",".","1","6",".","*">>>>,
      <<<<"1","7","2",".","1","6","0",".","0",".","5">>, <<"1","7","2",".","1","6",".","*">>>>,
      <<<<"1","7","2",".","1","6",".">>, <<"1","7","2",".","1","6",".","*">>>>,
      <<<<"1","0",".","1","7","2",".","1","6",".","0",".","5">>, <<"1","7","2",".","1","6",".","*">>>>,
      <<<<"A","P","I",".","E","x","a","m","p","l","e",".","c","o","m">>, <<"*",".","e","x","a","m","p","l","e",".","c","o","m">>>>,
      <<<<"e","x","a","m","p","l","e",".","c","o","m",".","e","v","i","l",".","i","o">>, <<"*",".","e","x","a","m","p","l","e",".","c","o","m">>>>,
      <<<<"e","x","a","m","p","l","e",".","c","o","m">>, <<"e","x","a","m","p","l","e",".","c","o","m">>>>,
      <<<<"e","x","a","m","p","l","e",".","c","o","m",".","e","v","i","l",".","i","o">>, <<"e","x","a","m","p","l","e",".","c","o","m">>>>,
      <<<<"n","o","t","e","x","a","m","p","l","e",".","c","o","m">>, <<"e","x","a","m","p","l","e",".","c","o","m">>>>,
      <<<<"e","x","a","m","p","l","e","x","c","o","m">>, <<"e","x","a","m","p","l","e",".","c","o","m">>>>,
      <<<<"a",".","i","o","\n",".","i","n","t","e","r","n","a","l">>, <<"a",".","i","o","*">>>>,
      <<<<"g","+","+">>, <<"g","+","+">>>>,
      <<<<"g","g","g">>, <<"g","+","+">>>>,
      <<<<"r","m">>, <<"r","?">>>> }

MatchInputs ==
    MatchExamples
        \cup (Strings(ValueChars, MaxLen) \X Strings(PatternChars, MaxLen))

\* matchesPattern(value, pattern)
MatchesPattern ==
    \E input \in MatchInputs :
        /\ probe.op = "none"
        /\ probe' = [op |-> "matchesPattern",
                     value |-> input[1],
                     pattern |-> input[2],
                     matched |-> RegExpTest(regex(input[2]), input[1])]
        /\ UNCHANGED beyondProbe

\* how a path can begin, and what it can name
PathPrefixes ==
    { <<"/">>, << >>, <<"/","w","/">>, <<".",".","/">>, <<"/","t","m","p","/",".",".","/">>, <<"/",".","/","/">>, <<"/","h","/">> }

PathNames ==
    { <<"e","t","c","/","s","h","a","d","o","w">>, <<"e","t","c","/","p","a","s","s","w","d">>, <<"e","t","c","/","s","u","d","o","e","r","s",".","d","/","x">>,
      <<"e","t","c","/","s","s","h","/","k","e","y">>, <<"e","t","c","/","s","h","a","d","o","w","s">>, <<".","s","s","h","/","i","d">>, <<".","a","w","s","/","c">>,
      <<".","g","n","u","p","g","/","k">>, <<".","c","o","n","f","i","g","/","g","c","l","o","u","d","/","a">>, <<".","k","u","b","e","/","c","o","n","f","i","g">>,
      <<".","n","p","m","r","c">>, <<".","n","e","t","r","c">>, <<".","e","n","v">>, <<".","e","n","v",".","l","o","c","a","l">>, <<".","e","n","v","o","y">>,
      <<"c","r","e","d","e","n","t","i","a","l","s",".","j","s","o","n">>, <<"S","e","r","v","i","c","e","-","A","c","c","o","u","n","t","-","x",".","j","s","o","n">>,
      <<"s","e","r","v","i","c","e","_","_","a","c","c","o","u","n","t",".","j","s","o","n">>, <<"t","o","k","e","n",".","j","s","o","n">>, <<"t","o","k","e","n","s",".","j","s","o","n">>,
      <<"p","r","o","c","/","s","e","l","f","/","e","n","v","i","r","o","n">>, <<"s","y","s","/","k","e","r","n","e","l","/","x">>, <<"d","e","v","/","s","d","a">>,
      <<"d","e","v","i","c","e">>, <<"a",".","t","x","t">>, <<"x","/",".",".","/","p","r","o","c","/","1","/","m","e","m">> }

\* the paths handed to read_file and file_serve: non-empty strings
Paths == { prefix \o name : prefix \in PathPrefixes, name \in PathNames }

\* read_file: the security check of readFile
ReadFileCheck ==
    \E path \in Paths :
        /\ probe.op = "none"
        /\ probe' = [op |-> "read_file", path |-> path,
                     blocked |-> readFileIsBlockedPath(path)]
        /\ UNCHANGED beyondProbe

\* file_serve: the security check of fileServe
FileServeCheck ==
    \E path \in Paths :
        /\ probe.op = "none"
        /\ probe' = [op |-> "file_serve", path |-> path,
                     blocked |-> isBlockedPath(path)]
        /\ UNCHANGED beyondProbe

InitProbe == PolicyIdle /\ OthersIdle

NextProbe ==
    \/ MatchesPattern
    \/ ReadFileCheck
    \/ FileServeCheck

SpecProbe == InitProbe /\ [][NextProbe]_vars

(***************************************************************************)
(* Properties                                                              *)
(***************************************************************************)
\* identifiers the properties of the policy store are stated for
DomainProbes ==
    DomainInputs \cup
    { <<"1","2","7",".","0",".","0",".","1">>,
      <<"1","0",".","5",".","3",".","2">>,
      <<"L","O","C","A","L","H","O","S","T">>,
      <<"b",".","i","o">>,
      <<"a",".","i","o">> }

CommandProbes ==
    CommandInputs \cup
    { <<"r","m"," ","-","r","f"," ","/">>,
      <<"s","u","d","o">>,
      <<"c","u","r","l">>,
      <<"w","g","e","t"," ","x","/","c","u","r","l">> }

\* the allowlists a configuration holds, and those the file holds
MemAllowlists(config) == <<config.allowedDomains, config.allowedCommands>>

FileAllowlists(file) ==
    IF file.kind = "JSON"
    THEN <<Field(file, "allowedDomains"), Field(file, "allowedCommands")>>
    ELSE << <<>>, <<>> >>

\* C1: in every reachable state, an identifier whose normalized form matches
\* a blocklist pattern is classified BLOCKED by isDomainAllowed /
\* isCommandAllowed whatever the allowlist holds, also when the identifier
\* matches an allowlist pattern (a classification that throws because the
\* configuration could not be created returns no status at all).
C1_BlocklistPrecedesAllowlist ==
    /\ \A x \in DomainProbes, io \in Outcomes(FALSE) :
         \A r \in {isDomainAllowed(currentConfig, configFile, x, io)} :
            (/\ r.status # "threw"
             /\ matchesAnyPattern(extractDomain(x),
                                  r.world.currentConfig.blockedDomains))
            => r.status = "BLOCKED"
    /\ \A x \in CommandProbes, io \in Outcomes(FALSE) :
         \A r \in {isCommandAllowed(currentConfig, configFile, x, io)} :
            (/\ r.status # "threw"
             /\ matchesAnyPattern(extractCommand(x),
                                  r.world.currentConfig.blockedCommands))
            => r.status = "BLOCKED"

\* a classification returned BLOCKED for an identifier that an allowlist
\* pattern matches as well
C1_Witness ==
    /\ call.op = "isDomainAllowed"
    /\ call.status = "BLOCKED"
    /\ \E x \in DomainInputs :
          /\ matchesAnyPattern(extractDomain(x), currentConfig.blockedDomains)
          /\ matchesAnyPattern(extractDomain(x), currentConfig.allowedDomains)

\* C3: addDomainToAllowlist / addCommandToAllowlist called with an
\* identifier whose normalized form matches a blocklist pattern fails with
\* an error and leaves the allowlists as they were, in memory and in the file.
C3_BlockedIsNeverAllowlisted ==
    /\ \A x \in DomainProbes, io \in Outcomes(TRUE) :
         \A pre \in {getConfig(currentConfig, configFile, io)} :
           \A w \in {addDomainToAllowlist(currentConfig, configFile, x, io)} :
              (/\ ~Threw(pre)
               /\ matchesAnyPattern(extractDomain(x),
                                    pre.currentConfig.blockedDomains))
              => /\ w.error = "blocklist"
                 /\ MemAllowlists(w.currentConfig)
                      = MemAllowlists(pre.currentConfig)
                 /\ FileAllowlists(w.configFile) = FileAllowlists(configFile)
    /\ \A x \in CommandProbes, io \in Outcomes(TRUE) :
         \A pre \in {getConfig(currentConfig, configFile, io)} :
           \A w \in {addCommandToAllowlist(currentConfig, configFile, x, io)} :
              (/\ ~Threw(pre)
               /\ matchesAnyPattern(extractCommand(x),
                                    pre.currentConfig.blockedCommands))
              => /\ w.error = "blocklist"
                 /\ MemAllowlists(w.currentConfig)
                      = MemAllowlists(pre.currentConfig)
                 /\ FileAllowlists(w.configFile) = FileAllowlists(configFile)

\* an add of a blocked identifier has just been refused
C3_Witness ==
    /\ call.op = "addDomainToAllowlist"
    /\ call.error = "blocklist"
    /\ ~call.changed

\* C4: whatever loads, adds, removes and resets have happened, the
\* blocklists in memory contain every baseline entry, and loading a JSON
\* file yields for each blocklist the union of the file's list and the
\* baseline.
C4_BaselineAlwaysBlocked ==
    /\ ~currentConfig.null
       => /\ Range(DEFAULT_BLOCKED_DOMAINS)
               \subseteq Range(currentConfig.blockedDomains)
          /\ Range(DEFAULT_BLOCKED_COMMANDS)
               \subseteq Range(currentConfig.blockedCommands)
    /\ \A io \in IO :
         \A w \in {loadConfig(configFile, io)} :
            (configFile.kind = "JSON" /\ ~io.readFails)
            => /\ Range(w.currentConfig.blockedDomains)
                    = Range(DEFAULT_BLOCKED_DOMAINS)
                      \cup Range(Field(configFile, "blockedDomains"))
               /\ Range(w.currentConfig.blockedCommands)
                    = Range(DEFAULT_BLOCKED_COMMANDS)
                      \cup Range(Field(configFile, "blockedCommands"))

\* a file whose blocklist omits the baseline has been loaded
C4_Witness ==
    /\ call.op = "loadConfig"
    /\ ~currentConfig.null
    /\ configFile.kind = "JSON"
    /\ ~(Range(DEFAULT_BLOCKED_DOMAINS)
           \subseteq Range(Field(configFile, "blockedDomains")))
    /\ Range(Field(configFile, "blockedDomains"))
           \subseteq Range(currentConfig.blockedDomains)

\* a request that passes the validation preceding classification
ValidFetch(input) == validateUrl(input.url) = "ok"

ValidExec(input) ==
    ~containsDangerousPatterns(input.command) /\ validateArgs(input.args)

\* C2: a gated operation whose identifier classifies as BLOCKED calls neither
\* fetch nor spawn and changes no allowlist, whatever approve token is
\* supplied, and returns an error result that names the identifier.
C2_BlockedIsRefused ==
    /\ \A input \in FetchInputs, fetchOk \in BOOLEAN :
         \A io \in Outcomes(input.approve = "always") :
           \A pre \in {getConfig(currentConfig, configFile, io)} :
             \A r \in {proxyFetch(currentConfig, configFile, input, io,
                                  fetchOk)} :
                (/\ ValidFetch(input)
                 /\ ~Threw(pre)
                 /\ matchesAnyPattern(extractDomain(input.url),
                                      pre.currentConfig.blockedDomains))
                => /\ ~r.invoked
                   /\ MemAllowlists(r.world.currentConfig)
                        = MemAllowlists(pre.currentConfig)
                   /\ FileAllowlists(r.world.configFile)
                        = FileAllowlists(configFile)
                   /\ r.status = "error"
                   /\ r.named = extractDomain(input.url)
    /\ \A input \in ExecInputs, spawnOk \in BOOLEAN :
         \A io \in Outcomes(input.approve = "always") :
           \A pre \in {getConfig(currentConfig, configFile, io)} :
             \A r \in {networkExec(currentConfig, configFile, input, io,
                                   spawnOk)} :
                (/\ ValidExec(input)
                 /\ ~Threw(pre)
                 /\ matchesAnyPattern(extractCommand(input.command),
                                      pre.currentConfig.blockedCommands))
                => /\ ~r.invoked
                   /\ MemAllowlists(r.world.currentConfig)
                        = MemAllowlists(pre.currentConfig)
                   /\ FileAllowlists(r.world.configFile)
                        = FileAllowlists(configFile)
                   /\ r.status = "error"
                   /\ r.named = extractCommand(input.command)

\* the identifier of a request matches neither list of a configuration
NeedsApprovalDomain(config, url) ==
    /\ ~matchesAnyPattern(extractDomain(url), config.blockedDomains)
    /\ ~matchesAnyPattern(extractDomain(url), config.allowedDomains)

NeedsApprovalCommand(config, command) ==
    /\ ~matchesAnyPattern(extractCommand(command), config.blockedCommands)
    /\ ~matchesAnyPattern(extractCommand(command), config.allowedCommands)

\* C5: when the identifier of a gated operation classifies as NEEDS_APPROVAL
\* and no approve token is supplied, the operation returns a needs_approval
\* result carrying the normalized identifier, calls neither fetch nor spawn
\* and leaves the allowlists unchanged.
C5_NeedsApprovalHalts ==
    /\ \A input \in {f \in FetchInputs : f.approve = "none"},
          fetchOk \in BOOLEAN :
         \A io \in Outcomes(FALSE) :
           \A pre \in {getConfig(currentConfig, configFile, io)} :
             \A r \in {proxyFetch(currentConfig, configFile, input, io,
                                  fetchOk)} :
                (/\ ValidFetch(input)
                 /\ ~Threw(pre)
                 /\ NeedsApprovalDomain(pre.currentConfig, input.url))
                => /\ r.status = "needs_approval"
                   /\ r.named = extractDomain(input.url)
                   /\ ~r.invoked
                   /\ MemAllowlists(r.world.currentConfig)
                        = MemAllowlists(pre.currentConfig)
                   /\ FileAllowlists(r.world.configFile)
                        = FileAllowlists(configFile)
    /\ \A input \in {e \in ExecInputs : e.approve = "none"},
          spawnOk \in BOOLEAN :
         \A io \in Outcomes(FALSE) :
           \A pre \in {getConfig(currentConfig, configFile, io)} :
             \A r \in {networkExec(currentConfig, configFile, input, io,
                                   spawnOk)} :
                (/\ ValidExec(input)
                 /\ ~Threw(pre)
                 /\ NeedsApprovalCommand(pre.currentConfig, input.command))
                => /\ r.status = "needs_approval"
                   /\ r.named = extractCommand(input.command)
                   /\ ~r.invoked
                   /\ MemAllowlists(r.world.currentConfig)
                        = MemAllowlists(pre.currentConfig)
                   /\ FileAllowlists(r.world.configFile)
                        = FileAllowlists(configFile)

\* what a once-approved request does: it persists nothing, and the same
\* request without a token is answered needs_approval afterwards; it calls
\* fetch / spawn when mustInvoke holds
OnceFetch(input, io, fetchOk, mustInvoke) ==
    \A pre \in {getConfig(currentConfig, configFile, io)} :
      \A r \in {proxyFetch(currentConfig, configFile, input, io, fetchOk)} :
        \A later \in {proxyFetch(r.world.currentConfig, r.world.configFile,
                                 [input EXCEPT !.approve = "none"], io,
                                 fetchOk)} :
           (/\ ValidFetch(input)
            /\ ~Threw(pre)
            /\ NeedsApprovalDomain(pre.currentConfig, input.url))
           => /\ mustInvoke => r.invoked
              /\ MemAllowlists(r.world.currentConfig)
                   = MemAllowlists(pre.currentConfig)
              /\ FileAllowlists(r.world.configFile)
                   = FileAllowlists(configFile)
              /\ later.status = "needs_approval"

OnceExec(input, io, spawnOk) ==
    \A pre \in {getConfig(currentConfig, configFile, io)} :
      \A r \in {networkExec(currentConfig, configFile, input, io, spawnOk)} :
        \A later \in {networkExec(r.world.currentConfig, r.world.configFile,
                                  [input EXCEPT !.approve = "none"], io,
                                  spawnOk)} :
           (/\ ValidExec(input)
            /\ ~Threw(pre)
            /\ NeedsApprovalCommand(pre.currentConfig, input.command))
           => /\ r.invoked
              /\ MemAllowlists(r.world.currentConfig)
                   = MemAllowlists(pre.currentConfig)
              /\ FileAllowlists(r.world.configFile)
                   = FileAllowlists(configFile)
              /\ later.status = "needs_approval"

\* C6 (as stated): an approve = "once" invocation for a NEEDS_APPROVAL
\* identifier proceeds to fetch / spawn for that invocation only and persists
\* nothing: the allowlists are unchanged in memory and on disk, and a later
\* invocation for the same identifier without a token yields needs_approval.
C6_OnceProceedsAndPersistsNothing ==
    /\ \A input \in {f \in FetchInputs : f.approve = "once"},
          fetchOk \in BOOLEAN :
         \A io \in Outcomes(FALSE) : OnceFetch(input, io, fetchOk, TRUE)
    /\ \A input \in {e \in ExecInputs : e.approve = "once"},
          spawnOk \in BOOLEAN :
         \A io \in Outcomes(FALSE) : OnceExec(input, io, spawnOk)

\* C6 (amended): an approve = "once" invocation for a NEEDS_APPROVAL
\* identifier persists nothing, so that a later invocation without a token
\* yields needs_approval again, and it proceeds to fetch / spawn provided
\* that, for proxy_fetch, the HTTP method of the request is a valid one.
C6_OnceProceedsWhenMethodValid ==
    /\ \A input \in {f \in FetchInputs : f.approve = "once"},
          fetchOk \in BOOLEAN :
         \A io \in Outcomes(FALSE) :
            OnceFetch(input, io, fetchOk, validateMethod(input.method))
    /\ \A input \in {e \in ExecInputs : e.approve = "once"},
          spawnOk \in BOOLEAN :
         \A io \in Outcomes(FALSE) : OnceExec(input, io, spawnOk)

\* a once-approved fetch went through to fetch() and the domain still needs
\* approval
C6_Witness ==
    /\ call.op = "proxyFetch"
    /\ call.approve = "once"
    /\ call.invoked
    /\ ~currentConfig.null
    /\ \E input \in FetchInputs :
          /\ ValidFetch(input)
          /\ NeedsApprovalDomain(currentConfig, input.url)

\* the file system behaving well: what a reload from disk meets
Reload == [readFails |-> FALSE, loadWrite |-> TRUE, saveWrite |-> TRUE]

\* C7: after a gated operation for a NEEDS_APPROVAL identifier was invoked
\* with approve = "always" and the allowlist add succeeded, a later
\* classification of the same identifier returns ALLOWED, also after the
\* cache was cleared and the configuration reloaded from disk.
C7_AlwaysIsRemembered ==
    /\ \A input \in {f \in FetchInputs : f.approve = "always"},
          fetchOk \in BOOLEAN :
         \A io \in Outcomes(TRUE) :
           \A pre \in {getConfig(currentConfig, configFile, io)} :
             \A r \in {proxyFetch(currentConfig, configFile, input, io,
                                  fetchOk)} :
                (/\ ValidFetch(input)
                 /\ ~Threw(pre)
                 /\ NeedsApprovalDomain(pre.currentConfig, input.url)
                 /\ r.error \notin {"write", "blocklist"})
                => /\ isDomainAllowed(r.world.currentConfig,
                                      r.world.configFile, input.url,
                                      Reload).status = "ALLOWED"
                   /\ isDomainAllowed(NullConfig, r.world.configFile,
                                      input.url, Reload).status = "ALLOWED"
    /\ \A input \in {e \in ExecInputs : e.approve = "always"},
          spawnOk \in BOOLEAN :
         \A io \in Outcomes(TRUE) :
           \A pre \in {getConfig(currentConfig, configFile, io)} :
             \A r \in {networkExec(currentConfig, configFile, input, io,
                                   spawnOk)} :
                (/\ ValidExec(input)
                 /\ ~Threw(pre)
                 /\ NeedsApprovalCommand(pre.currentConfig, input.command)
                 /\ r.error \notin {"write", "blocklist"})
                => /\ isCommandAllowed(r.world.currentConfig,
                                       r.world.configFile, input.command,
                                       Reload).status = "ALLOWED"
                   /\ isCommandAllowed(NullConfig, r.world.configFile,
                                       input.command, Reload).status
                        = "ALLOWED"

\* what a removal that completes does to the classification of x, for the
\* identifiers x that were ALLOWED and satisfy Sole
RemovedDomain(Sole(_, _)) ==
    \A x \in DomainProbes, io \in Outcomes(TRUE) :
      \A pre \in {isDomainAllowed(currentConfig, configFile, x, io)} :
        \A w \in {removeDomainFromAllowlist(currentConfig, configFile, x,
                                            io)} :
           (/\ pre.status = "ALLOWED"
            /\ Sole(pre.world.currentConfig.allowedDomains, extractDomain(x))
            /\ ~Threw(w))
           => isDomainAllowed(w.currentConfig, w.configFile, x,
                              Reload).status = "NEEDS_APPROVAL"

RemovedCommand(Sole(_, _)) ==
    \A x \in CommandProbes, io \in Outcomes(TRUE) :
      \A pre \in {isCommandAllowed(currentConfig, configFile, x, io)} :
        \A w \in {removeCommandFromAllowlist(currentConfig, configFile, x,
                                             io)} :
           (/\ pre.status = "ALLOWED"
            /\ Sole(pre.world.currentConfig.allowedCommands,
                    extractCommand(x))
            /\ ~Threw(w))
           => isCommandAllowed(w.currentConfig, w.configFile, x,
                               Reload).status = "NEEDS_APPROVAL"

AnyEntry(list, id) == TRUE

\* id is an entry of list, and no other entry of list matches id
OnlyOwnEntry(list, id) ==
    \E i \in 1..Len(list) :
        /\ list[i] = id
        /\ \A j \in 1..Len(list) : j # i => ~matchesPattern(id, list[j])

\* C8 (as stated): after removeDomainFromAllowlist(x) /
\* removeCommandFromAllowlist(x) completes for an identifier x that
\* classified as ALLOWED, classification of x returns NEEDS_APPROVAL.
C8_RemoveRevokes ==
    RemovedDomain(AnyEntry) /\ RemovedCommand(AnyEntry)

\* C8 (amended): after removeDomainFromAllowlist(x) /
\* removeCommandFromAllowlist(x) completes for an identifier x that
\* classified as ALLOWED, whose normalized form is itself an allowlist entry
\* and is matched by no other allowlist entry, classification of x returns
\* NEEDS_APPROVAL.
C8_RemoveRevokesOwnEntry ==
    RemovedDomain(OnlyOwnEntry) /\ RemovedCommand(OnlyOwnEntry)

\* a removal has just taken an entry out of the allowlist, and the
\* identifier needs approval again
C8_Witness ==
    /\ call.op = "removeDomainFromAllowlist"
    /\ call.status = "ok"
    /\ call.changed
    /\ \E x \in DomainInputs :
          /\ ~matchesAnyPattern(extractDomain(x), currentConfig.blockedDomains)
          /\ ~matchesAnyPattern(extractDomain(x), currentConfig.allowedDomains)

\* network_exec requests with every shell operator, and with characters that
\* only look like one
ExecProbes ==
    ExecInputs
    \cup
    [command : { <<"c","u","r","l">> },
     args : { << <<"a","|","b">> >>,
              << <<"a","|","|","b">> >>,
              << <<"a",">","b">> >>,
              << <<"a","<","b">> >>,
              << <<"$","(","i","d",")">> >>,
              << <<"BACKTICK","i","d","BACKTICK">> >>,
              << <<"$","{","X","}">> >>,
              << <<"a","&","&","b">> >>,
              << <<"a",";","b">> >>,
              << <<"a","&","b">> >>,
              << <<"$","H","O","M","E">> >>,
              << <<"-","s">> >> },
     approve : {"always"}]
    \cup
    [command : { <<"c","u","r","l","|","s","h">>,
                 <<"c","u","$","(","x",")","r","l">>,
                 <<"c","u","r","l","&">>,
                 <<"c","u","r","l",">","f">> },
     args : { <<>> },
     approve : {"always"}]

\* s contains ; | > < or a backquote, or && or $( or ${
HasShellOperator(s) ==
    \E i \in 1..Len(s) :
        \/ s[i] \in {";", "|", ">", "<", "BACKTICK"}
        \/ /\ i < Len(s)
           /\ \/ s[i] = "&" /\ s[i + 1] = "&"
              \/ s[i] = "$" /\ s[i + 1] \in {"(", "{"}

Rejected(r) == r.error \in {"dangerous_command", "dangerous_argument"}

\* C9: network_exec rejects a request exactly when the raw command string or
\* one of the arguments contains one of ; | && || > < $( ` ${ ; a rejected
\* request spawns nothing and changes no allowlist, also under approve =
\* "always"; a request containing none of them passes validation.
C9_ShellOperatorsRejected ==
    \A input \in ExecProbes, spawnOk \in BOOLEAN :
      \A io \in Outcomes(input.approve = "always") :
        \A r \in {networkExec(currentConfig, configFile, input, io,
                              spawnOk)} :
           /\ Rejected(r)
              <=> \/ HasShellOperator(input.command)
                  \/ \E i \in 1..Len(input.args) :
                        HasShellOperator(input.args[i])
           /\ Rejected(r)
              => /\ ~r.invoked
                 /\ r.world = World(currentConfig, configFile, "none")

\* an always-approved request has just been rejected for an argument
C9_Witness ==
    /\ call.op = "networkExec"
    /\ call.approve = "always"
    /\ call.error = "dangerous_argument"
    /\ ~call.invoked
    /\ ~call.changed

\* C10: when the write of an allowlist add or remove fails, the error
\* propagates to the caller (a call that returns normally has changed
\* nothing), and every classification from memory is afterwards what it was
\* before the call.
C10_FailedWriteLeavesMemory ==
    /\ \A x \in DomainProbes, io \in Outcomes(TRUE) :
         \A pre \in {getConfig(currentConfig, configFile, io)} :
           \A w \in {addDomainToAllowlist(currentConfig, configFile, x, io),
                     removeDomainFromAllowlist(currentConfig, configFile, x,
                                               io)} :
              (~Threw(pre) /\ ~io.saveWrite)
              => /\ ~Threw(w)
                    => MemAllowlists(w.currentConfig)
                         = MemAllowlists(pre.currentConfig)
                 /\ w.error = "write"
                    => \A y \in DomainProbes :
                          isDomainAllowed(w.currentConfig, w.configFile, y,
                                          Reload).status
                          = isDomainAllowed(pre.currentConfig, pre.configFile,
                                            y, Reload).status
    /\ \A x \in CommandProbes, io \in Outcomes(TRUE) :
         \A pre \in {getConfig(currentConfig, configFile, io)} :
           \A w \in {addCommandToAllowlist(currentConfig, configFile, x, io),
                     removeCommandFromAllowlist(currentConfig, configFile, x,
                                                io)} :
              (~Threw(pre) /\ ~io.saveWrite)
              => /\ ~Threw(w)
                    => MemAllowlists(w.currentConfig)
                         = MemAllowlists(pre.currentConfig)
                 /\ w.error = "write"
                    => \A y \in CommandProbes :
                          isCommandAllowed(w.currentConfig, w.configFile, y,
                                           Reload).status
                          = isCommandAllowed(pre.currentConfig,
                                             pre.configFile, y, Reload).status


\* C12: whenever nothing is cached and the config file cannot be read,
\* parsed or found, getConfig, isDomainAllowed and isCommandAllowed do not
\* throw and go on with the defaults (empty allowlists, baseline blocklists).
C12_ReadFailureFallsBack ==
    \A io \in Outcomes(FALSE) :
       (/\ currentConfig.null
        /\ configFile.kind \in {"ENOENT", "INVALID"} \/ io.readFails)
       => /\ \A w \in {getConfig(currentConfig, configFile, io)} :
                ~Threw(w) /\ w.currentConfig = createDefaultConfig
          /\ \A x \in DomainProbes :
                \A r \in {isDomainAllowed(currentConfig, configFile, x, io)} :
                   /\ r.status # "threw"
                   /\ r.world.currentConfig = createDefaultConfig
          /\ \A x \in CommandProbes :
                \A r \in {isCommandAllowed(currentConfig, configFile, x, io)} :
                   /\ r.status # "threw"
                   /\ r.world.currentConfig = createDefaultConfig

\* C13: a step in which proxy_fetch or network_exec reaches fetch() / spawn()
\* is a step in which the rate limiter has admitted the request: it has
\* recorded the time of the request for some identifier.
C13_CapabilityFollowsAdmission ==
    [][(call'.op \in {"proxyFetch", "networkExec"} /\ call'.invoked)
       => \E identifier \in DOMAIN requestStore' :
             /\ now' \in Range(requestStore'[identifier])
             /\ \/ identifier \notin DOMAIN requestStore
                \/ requestStore'[identifier] # requestStore[identifier]]_vars

\* configurations and call times the limiter's properties are stated for;
\* the times are offsets from now
ClaimConfigs ==
    { [maxRequests |-> 1, windowMs |-> 60000],
      [maxRequests |-> 2, windowMs |-> 60000],
      [maxRequests |-> 1, windowMs |-> 180000] }

ClaimOffsets == {0, 1, 59999, 60000, 150000, 240000, 390000, 450000}

\* the nondecreasing sequences of n call times
Schedules(n) ==
    {s \in [1..n -> {now + o : o \in ClaimOffsets}] :
        \A i \in 1..(n - 1) : s[i] <= s[i + 1]}

\* what successive checkRateLimit(identifier, config) calls made at the
\* given times return
RECURSIVE Admissions(_, _, _, _, _)
Admissions(store, cleanedAt, identifier, config, times) ==
    IF times = << >> THEN << >>
    ELSE The({ <<r.result>>
               \o Admissions(r.limiter.requestStore, r.limiter.lastCleanup,
                             identifier, config, Tail(times))
               : r \in {checkRateLimit(store, cleanedAt, identifier, config,
                                       Head(times))} })

\* C14: for an identifier whose window is empty, of N + 1 calls made within
\* less than windowMs the first N are allowed and the last is denied with
\* retryAfterMs > 0; a call made after the window of the allowed calls has
\* passed is allowed again.
C14_WindowAdmitsThenDenies ==
    \A identifier \in Identifiers, config \in ClaimConfigs :
      \A times \in Schedules(config.maxRequests + 2) :
        \A results \in {Admissions(requestStore, lastCleanup, identifier,
                                   config, times)} :
           (/\ Windowed(Limiter(requestStore, lastCleanup), identifier,
                        config, times[1]) = << >>
            /\ times[config.maxRequests + 1] - times[1] < config.windowMs
            /\ times[config.maxRequests + 2] - times[config.maxRequests]
                  > config.windowMs)
           => /\ \A i \in 1..config.maxRequests : results[i].allowed
              /\ ~results[config.maxRequests + 1].allowed
              /\ results[config.maxRequests + 1].retryAfterMs > 0
              /\ results[config.maxRequests + 2].allowed

\* C15: when checkRateLimit denies a call made at time t with retryAfterMs
\* = r, the next call for the same identifier and config, made at t + r, is
\* allowed.
C15_DenialIsRetryable ==
    \A identifier \in Identifiers, config \in ClaimConfigs :
      \A t \in {now + o : o \in ClaimOffsets} :
        \A denied \in {checkRateLimit(requestStore, lastCleanup, identifier,
                                      config, t)} :
           ~denied.result.allowed
           => checkRateLimit(denied.limiter.requestStore,
                             denied.limiter.lastCleanup, identifier, config,
                             t + denied.result.retryAfterMs).result.allowed

\* the ids the registry can hand out
FileIds == 1..MaxFiles

\* C16: get(id) of a registration returns it before its expiry, and returns
\* absent and calls removeFile whenever now >= expiresAt
C16_GetHonoursExpiry ==
    \A id \in FileIds :
        Has(files, id) =>
            \A r \in {get(files, id, now)} :
                IF now >= Lookup(files, id).expiresAt
                THEN r.registration = Absent /\ r.removes
                ELSE r.registration = Lookup(files, id)

\* C17: a registration that has expired is eventually out of the index with
\* its copy out of the serve directory
C17_ExpiredIsReclaimed ==
    \A id \in FileIds :
        (Has(files, id) /\ Expired(Lookup(files, id), now))
            ~> (~Has(files, id) /\ id \notin serveDir)

\* C18: the number clearAll() returns is the number of registrations it
\* removed, and the index is empty when it returns
C18_ClearAllCountsRemoved ==
    answer.op = "clearAll" =>
        answer.count = answer.removed /\ answer.left = 0

\* the last segment of the path of a request target is {id}.{ext} with an
\* id of 36 characters
NamesFile(url) ==
    /\ RequestURL(url).ok
    /\ pathParts(RequestURL(url).path) # << >>
    /\ Match(pathParts(RequestURL(url).path)[
                 Len(pathParts(RequestURL(url).path))]) # << >>

\* C19: a request whose method is neither GET nor HEAD, or whose path is not
\* {id}.{ext}, is answered 404 or 405 without a registry lookup and without
\* opening a file
C19_OtherRequestsAreRefused ==
    listening # 0 =>
        \A method \in Methods, url \in Targets :
            (method \notin {"GET", "HEAD"} \/ ~NamesFile(url)) =>
                \A r \in {handleRequest(method, url, files, now)} :
                    /\ r.status \in {404, 405}
                    /\ ~r.looksUp
                    /\ ~r.streams

\* C20: at most one file_serve call binds, and once the server listens every
\* call that has returned a port returned the port it listens on; no call
\* returns a port when the bind has failed
C20_StartBindsOnce ==
    /\ Cardinality({caller \in Callers : serves[caller].binds}) <= 1
    /\ listening # 0 =>
          \A caller \in Callers :
              serves[caller].pc = "done" => serves[caller].port = listening
    /\ (\E caller \in Callers : serves[caller].pc = "failed") =>
          \A caller \in Callers : serves[caller].pc # "done"

\* C11: when the overlapping approvals have all returned, the allowlists in
\* memory and those of the file hold every identifier approved
C11_NoApprovalIsLost ==
    (\A w \in Writers : writers[w].pc = "done") =>
        \A w \in Writers :
            /\ IdentifierOf(writers[w])
                   \in Range(currentConfig[ListOf(writers[w])])
            /\ IdentifierOf(writers[w])
                   \in Range(configFile[ListOf(writers[w])])
(***************************************************************************)
(* Properties of the tunnel supervisor                                     *)
(***************************************************************************)
\* the close handler of subprocess k runs in this step
Closes(k) ==
    Live(children[k]) /\ children'[k].state \in {"none", "closed"}

\* startTunnel() spawns a subprocess in this step
Spawns ==
    \E j \in DOMAIN children : ~Live(children[j]) /\ Live(children'[j])

\* C21: when the subprocess that the supervisor holds exits on its own
\* while publicUrl is set, the close handler starts a new subprocess and
\* counts one restart as long as restartCount is below maxRestarts; with
\* the budget used up it leaves the supervisor without process and without
\* publicUrl and starts nothing; restartCount never exceeds maxRestarts.
C21_RestartIsBounded ==
    [][/\ restartCount' <= maxRestarts
       /\ \A k \in DOMAIN children :
              (/\ process = k
               /\ publicUrl # 0
               /\ children[k].state = "alive"
               /\ Closes(k))
              => IF restartCount < maxRestarts
                 THEN /\ restartCount' = restartCount + 1
                      /\ Spawns
                      /\ process' # 0
                 ELSE /\ process' = 0
                      /\ publicUrl' = 0
                      /\ ~Spawns
                      /\ restartCount' = restartCount]_vars

\* the stderr handler of subprocess k sees the URL in this step
Emits(k) == ~children[k].resolved /\ children'[k].resolved

\* the startup timer of subprocess k fires in this step on an attempt
\* that is neither resolved nor closed
TimesOut(k) ==
    /\ Live(children[k])
    /\ ~children[k].timedOut
    /\ children'[k].timedOut

\* the start() calls that await the promise of subprocess k
Awaiting(k) ==
    {s \in Starters : starts[s].pc = "starting" /\ starts[s].child = k}

\* C22: a subprocess that emits its URL before its startup timer fires
\* makes the supervisor RUNNING with that URL, and the start() calls that
\* await it return that URL; when the timer of an attempt fires first, that
\* subprocess is signalled and the start() calls fail, its URL is never
\* published afterwards, and its close handler restarts nothing.
C22_StartupSettlesOnce ==
    [][\A k \in DOMAIN children :
           /\ (Emits(k) /\ children[k].timer)
              => /\ isRunning(process', publicUrl')
                 /\ publicUrl' = k
                 /\ \A s \in Awaiting(k) :
                        starts'[s].pc = "done" /\ starts'[s].url = k
           /\ TimesOut(k)
              => /\ Killed(children'[k])
                 /\ \A s \in Awaiting(k) : starts'[s].pc = "failed"
           /\ children'[k].timedOut => publicUrl' # k
           /\ (children[k].timedOut /\ Closes(k)) => ~Spawns]_vars

\* What the scheduling guarantees: a timer that is set fires, and a
\* subprocess that a fatal signal has reached exits, so that its close
\* handler runs.  Nothing makes a subprocess exit that ignores SIGTERM.
TunnelFairness ==
    /\ WF_vars(Timeout)
    /\ WF_vars(KillTimer)
    /\ \A k \in 1..MaxChildren :
           WF_vars(Close /\ children[k].state = "dying" /\ Closes(k))

SpecTunnelFair == SpecTunnel /\ TunnelFairness

\* C23: a subprocess that stop() has signalled is eventually dead, whether
\* it honours SIGTERM or not.
C23_StoppedIsEventuallyDead ==
    \A k \in 1..MaxChildren :
        Killed(children[k]) ~> ~Live(children[k])

\* C24: a start() that begins while another start() is under way spawns no
\* subprocess and returns the URL that the other one returns; a start()
\* that finds the supervisor RUNNING returns publicUrl and spawns nothing.
C24_StartIsGuarded ==
    [][\A s \in Starters :
           /\ (starts'[s].joined /\ starts'[s].child # 0)
              => \A o \in Starters \ {s} : starts'[o].child = 0
           /\ (starts'[s].joined /\ starts'[s].pc = "done")
              => \A o \in Starters :
                     starts'[o].pc = "done" => starts'[o].url = starts'[s].url
           /\ (/\ starts[s].pc = "idle"
               /\ starts'[s].pc # "idle"
               /\ isRunning(process, publicUrl))
              => /\ starts'[s].pc = "done"
                 /\ starts'[s].url = publicUrl
                 /\ ~Spawns]_vars

\* C29: publicUrl is set exactly while the subprocess that the supervisor
\* holds is alive and has emitted its URL; in particular it is null
\* whenever process is null, and the URL it holds is that of a live
\* subprocess.
C29_UrlMeansLiveTunnel ==
    /\ publicUrl # 0
       => /\ process # 0
          /\ Live(children[publicUrl])
          /\ children[publicUrl].resolved
    /\ (process # 0 /\ children[process].resolved) => publicUrl # 0

\* C30: stopTunnel() sets restartCount to zero, and nothing else lowers
\* it; a close handler that restarts raises it by one.
C30_StopResetsBudget ==
    [][/\ stops' # stops => restartCount' = 0
       /\ restartCount' < restartCount => stops' # stops
       /\ Spawns /\ starts' = starts => restartCount' = restartCount + 1]_vars

(***************************************************************************)
(* Properties of spawnWithTimeout                                          *)
(***************************************************************************)
\* C25: every spawned command settles, and a command that is running when
\* its timeout fires ends as timed out, also when it ignores SIGTERM.
C25_ExecSettles ==
    \A e \in Execs :
        /\ (execs[e].state # "none") ~> (execs[e].settled # "pending")
        /\ execs[e].killed ~> (execs[e].settled = "timed out")

(***************************************************************************)
(* Properties of the functions without state                               *)
(***************************************************************************)
\* C26: read_file and file_serve give every path the same verdict.
C26_SameVerdict ==
    /\ probe.op = "read_file" => probe.blocked = isBlockedPath(probe.path)
    /\ probe.op = "file_serve"
       => probe.blocked = readFileIsBlockedPath(probe.path)

\* what the claim takes a pattern to stand for: the value from place i
\* on is the pattern from place j on, where letters are equal up to case
\* and "*" stands for any run of characters, or, when lines is FALSE, for
\* any run of characters that are not line terminators
RECURSIVE WildcardFrom(_, _, _, _, _)
WildcardFrom(value, i, pattern, j, lines) ==
    IF j > Len(pattern) THEN i > Len(value)
    ELSE IF pattern[j] = "*"
         THEN \E k \in i..(Len(value) + 1) :
                  /\ \A m \in i..(k - 1) :
                         lines \/ value[m] \notin LineTerminators
                  /\ WildcardFrom(value, k, pattern, j + 1, lines)
    ELSE /\ i <= Len(value)
         /\ ToLowerChar(value[i]) = ToLowerChar(pattern[j])
         /\ WildcardFrom(value, i + 1, pattern, j + 1, lines)

\* C27 (as stated): a pattern matches a value exactly if the whole value,
\* up to case, is the pattern with every "*" replaced by zero or more
\* characters.
C27_WholeStringWildcard ==
    probe.op = "matchesPattern"
    => probe.matched = WildcardFrom(probe.value, 1, probe.pattern, 1, TRUE)

\* C27 (amended): a pattern matches a value exactly if the whole value, up
\* to case, is the pattern with every "*" replaced by zero or more
\* characters none of which is a line terminator; the matcher that the
\* policy store is modelled with gives the same verdict.
C27_WildcardWithinLine ==
    probe.op = "matchesPattern"
    => /\ probe.matched
          = WildcardFrom(probe.value, 1, probe.pattern, 1, FALSE)
       /\ probe.matched = matchesPattern(probe.value, probe.pattern)

\* "172.16.*" has been tried on "172.16.0.5", and matched
C27_Witness ==
    /\ probe.op = "matchesPattern"
    /\ probe.value = <<"1","7","2",".","1","6",".","0",".","5">>
    /\ probe.pattern = <<"1","7","2",".","1","6",".","*">>
    /\ probe.matched

(***************************************************************************)
(* Properties of register()                                                *)
(***************************************************************************)
\* C28: every registration in the index expires after it was created.
C28_ExpiresAfterCreation ==
    \A i \in 1..Len(files) : files[i].expiresAt > files[i].createdAt


(***************************************************************************)
(* HTTP file server: what its accessors answer                             *)
(***************************************************************************)
\* HttpFileServer.isRunning()
ServerIsRunning == server

\* HttpFileServer.getPort(); 0 stands for null
getPort == IF server THEN port ELSE 0

\* C31: until the "listening" event, while a bind is in progress or being
\* retried on the next port, getPort() answers null and isRunning() false
C31_NoPortBeforeListening ==
    listening = 0 => (getPort = 0 /\ ~ServerIsRunning)

\* the event loop delivers the event that answers a listen() call
ServerFairness ==
    /\ WF_vars(AddrInUse)
    /\ WF_vars(BadPort)
    /\ WF_vars(Listening)

SpecServerFair == SpecServer /\ ServerFairness

\* C32: a start() that is binding terminates, resolving with the bound port
\* or failing, also when every port it comes to try is in use
C32_StartTerminates ==
    \A caller \in Callers :
        (serves[caller].pc = "binding")
            ~> (serves[caller].pc \in {"done", "failed"})

\* C38: once start() has rejected, isRunning() answers false and getPort()
\* null, so that the next file_serve call binds anew
C38_FailedStartIsNotRunning ==
    (\E caller \in Callers : serves[caller].pc = "failed") =>
        (~ServerIsRunning /\ getPort = 0)

(***************************************************************************)
(* Tunnel supervisor: one subprocess at a time                             *)
(***************************************************************************)
\* C33: at most one subprocess is alive without a signal sent to it, and
\* when a subprocess that stop() has signalled closes while the supervisor
\* holds another one, process and publicUrl stay and nothing is spawned
C33_OneTunnelAtATime ==
    [][/\ Cardinality({k \in DOMAIN children :
                           children'[k].state = "alive"}) <= 1
       /\ \A k \in DOMAIN children :
              (/\ Closes(k)
               /\ Killed(children[k])
               /\ process # 0
               /\ process # k)
              => /\ process' = process
                 /\ publicUrl' = publicUrl
                 /\ ~Spawns]_vars

\* the thirty second timer of subprocess k fires in this step
Fires(k) == children[k].timer /\ ~children'[k].timer

\* a five second timer of stop() fires in this step
GraceFires == killTimers' < killTimers

\* C34: the startup timer of a subprocess leaves every other subprocess,
\* and the supervisor that holds another one, as they are; the grace timer
\* of a stop(), which was armed for a subprocess the supervisor no longer
\* holds, signals no subprocess started since
C34_TimersKeepToTheirChild ==
    [][/\ \A k \in DOMAIN children :
              Fires(k) =>
                  /\ \A j \in DOMAIN children \ {k} :
                         children'[j] = children[j]
                  /\ process \notin {0, k} =>
                         (process' = process /\ publicUrl' = publicUrl)
       /\ GraceFires => children' = children]_vars

(***************************************************************************)
(* Rate limiter: the sliding window                                        *)
(***************************************************************************)
\* the calls up to the i-th that were allowed less than windowMs before it
AdmittedWithin(results, times, i, config) ==
    {j \in 1..i : results[j].allowed
                  /\ times[i] - times[j] < config.windowMs}

\* C35: of the calls made for an identifier without record, all with the
\* same config and at any times, those allowed within any windowMs are at
\* most maxRequests, the periodic cleanup included
C35_WindowIsNeverExceeded ==
    \A identifier \in Identifiers \ DOMAIN requestStore :
      \A config \in ClaimConfigs :
        \A times \in Schedules(config.maxRequests + 1) :
          \A results \in {Admissions(requestStore, lastCleanup, identifier,
                                     config, times)} :
            \A i \in 1..Len(times) :
                Cardinality(AdmittedWithin(results, times, i, config))
                    <= config.maxRequests

(***************************************************************************)
(* File registry: lookups and removals                                     *)
(***************************************************************************)
\* get(id) returns in this step
Gets == answer'.op = "get" /\ answer' # answer

\* C36: when get(id) returns a registration, the copy at its servePath has
\* not been unlinked by the registry
C36_GetReturnsServableCopy ==
    [][(Gets /\ answer'.registration # Absent)
       => answer'.id \in serveDir]_vars

(***************************************************************************)
(* file_serve and the registry                                             *)
(***************************************************************************)
\* C37: when file_serve has returned status "error" because the server did
\* not start, the index holds no registration of that call and the serve
\* directory no copy
C37_FailedServeLeavesNothing ==
    \A caller \in Callers :
        serves[caller].pc = "failed" =>
            /\ ~Has(files, serves[caller].file)
            /\ serves[caller].file \notin serveDir

\* C39: at most one sweep timer is active whatever the number of file_serve
\* calls, and none once shutdown() has run and no file_serve has followed
C39_OneSweepTimer ==
    /\ cleanupInterval.active <= 1
    /\ ~cleanupInterval.held => cleanupInterval.active = 0

(***************************************************************************)
(* Policy store: what an approval adds                                     *)
(***************************************************************************)
\* identifiers approved with "always": those probed, a host name with a
\* wildcard as a string and in a URL, and a command with a wildcard
ApprovedDomains ==
    DomainProbes \cup
    { <<"*",".","i","o">>,
      <<"h","t","t","p","s",":","/","/","*",".","i","o","/","p">> }

ApprovedCommands ==
    CommandProbes \cup { <<"c","*">> }

\* C40: after addDomainToAllowlist(x) / addCommandToAllowlist(x) has
\* succeeded, every identifier that classified NEEDS_APPROVAL before and
\* whose normalized form differs from that of x, whatever the case of the
\* letters, still classifies NEEDS_APPROVAL
C40_ApprovalAddsOneIdentifier ==
    /\ \A x \in ApprovedDomains, y \in DomainProbes, io \in Outcomes(TRUE) :
         \A pre \in {getConfig(currentConfig, configFile, io)} :
           \A w \in {addDomainToAllowlist(currentConfig, configFile, x, io)} :
              (/\ ~Threw(pre)
               /\ ~Threw(w)
               /\ ToLower(extractDomain(y)) # ToLower(extractDomain(x))
               /\ NeedsApprovalDomain(pre.currentConfig, y))
              => NeedsApprovalDomain(w.currentConfig, y)
    /\ \A x \in ApprovedCommands, y \in CommandProbes, io \in Outcomes(TRUE) :
         \A pre \in {getConfig(currentConfig, configFile, io)} :
           \A w \in {addCommandToAllowlist(currentConfig, configFile, x, io)} :
              (/\ ~Threw(pre)
               /\ ~Threw(w)
               /\ ToLower(extractCommand(y)) # ToLower(extractCommand(x))
               /\ NeedsApprovalCommand(pre.currentConfig, y))
              => NeedsApprovalCommand(w.currentConfig, y)

====
